---- MODULE Spec2Model ----
(***************************************************************************)
(* Model of the frame seekers and timecode players of sCAnnotationToolMacOS.*)
(*                                                                         *)
(* The repository is a set of standalone scripts; `prog` says which one is *)
(* running.  Times are integer milliseconds (the code holds float seconds),*)
(* frame rates are integer frames per second.                              *)
(*   avf      zin_avf_video_player.py + avf_frame_grabber.py               *)
(*   pyav     zin_pyav_frame_seeker.py (PyAVFrameSeeker)                   *)
(*   imageio  zin_video_player_imageio.py                                  *)
(*   grabber  avf_frame_grabber.py used on its own (AVFFrameGrabber)       *)
(*   opencv   zin_video_player.py                                          *)
(*   pyavplay zin_pyav_frame_seeker.py, playback in the VideoPlayerWindow  *)
(*            (toggle_play, the play timer, the slider), each             *)
(*            display_frame call in one step                               *)
(*   vlc      zin_video_player_vlc_gui.py: the WebSocket thread's calls on  *)
(*            vlc_player and on_closing in the main thread                 *)
(*   wsclient zin_avf_video_player.py, the WebSocket thread: the loop of   *)
(*            websocket_client and handle_message, with the window's       *)
(*            closeEvent; the slots of the GUI thread do not run           *)
(***************************************************************************)
EXTENDS Integers, Sequences, FiniteSets, TLC

VARIABLES
    prog,                   \* which script is running
    \* ---- the globals every player script has ----
    should_reconnect,       \* global should_reconnect
    should_exit,            \* global should_exit
    is_playing,             \* is_playing (self.is_playing in the PyAV window)
    \* ---- zin_video_player.py (OpenCV): WebSocket thread "ws", display thread "main" ----
    video_cap,              \* video_cap: "none", or the state of the capture object
                            \* ("open", "unopened", "released")
    video_lock,             \* video_lock: "free" or the thread that holds it
    cv_pc,                  \* per thread: where it stands
    in_cap,                 \* per thread: the call on the capture it is inside, with
                            \* whether it held video_lock when it made it (None: no call)
    \* ---- zin_avf_video_player.py: websocket_client on the WebSocket thread ----
    ws_pc,                  \* where websocket_client stands
    server_up,              \* the server accepts connections and keeps them open
    ws_msg,                 \* the message taken from the connection (None: none)
    conn,                   \* observation of the current connection: registration
                            \* sent, a message handled, a handler raised
    attempts,               \* observation: connection attempts started (capped)
    late,                   \* observation: what was done with should_exit already set
    propagated,             \* an exception left handle_message
    \* ---- zin_pyav_frame_seeker.py: playback in the VideoPlayerWindow ----
    play_timer,             \* self.play_timer is active
    \* ---- zin_video_player_vlc_gui.py ----
    vlc_player,             \* vlc_player: "live", or "released" once release() was
                            \* called on it (the global keeps the object)
    vlc_lock,               \* holder of vlc_lock: "free" or a thread
    vlc_pc,                 \* per thread: where it stands
    vlc_msg,                \* the message the WebSocket thread took (None: none)
    vlc_call,               \* observation: the last call the WebSocket thread made on
                            \* vlc_player, and whether the player had been released
    \* ---- zin_avf_video_player.py: AVFVideoPlayerWindow (GUI thread) ----
    grabber,                \* self.grabber: "none", "open", or "closed" (object kept after close())
    video,                  \* metadata of the grabber object: framerate, total_frames
    current_frame,          \* self.current_frame
    pending_ws_seek_time,   \* self.pending_ws_seek_time (None or ms)
    timerLeft,              \* ws_seek_debounce_timer: ms until timeout, Inactive when stopped
    sigQueue,               \* queued signals from the WebSocket thread to the GUI thread
    running,                \* FALSE once the process has ended: aborted by an uncaught
                            \* slot error, or the window was closed
    uncaught,               \* an exception left a Qt slot
    in_grab,                \* per thread: the copyCGImageAtTime call it is inside, if any
    \* ---- observation of the AVF player (history, not program state) ----
    events,                 \* chronological log of updates reaching seek_to_time_seconds
                            \* and of grab_frame_number calls
    sinceUpdate,            \* ms since the last update reached seek_to_time_seconds (capped)
    sinceSeek,              \* ms since the last grab_frame_number call (capped)
    nMsgs,                  \* WebSocket messages handled so far
    callers,                \* threads that have called a method of a grabber
    \* ---- zin_pyav_frame_seeker.py: PyAVFrameSeeker ----
    stream,                 \* what the opened container holds: frames (pts, keyframe flags),
                            \* time base, average rate, frame count and duration it reports
    total_frames,           \* self.total_frames
    cursor,                 \* decode position of the container: next frame decode() yields
    current_frame_num,      \* self.current_frame_num
    current_image,          \* self.current_frame: None or the image (named by its pts)
    pc,                     \* where the program stands: "idle", in seek_to_frame
                            \* ("first", "loop"), in the window's load_video before
                            \* display_frame(0) ("load")
    seeker,                 \* the seeker's container: "open" or "closed" ("none": no seeker)
    window_open,            \* FALSE once the window was closed and the application quit
    loads,                  \* load_video calls of the VideoPlayerWindow so far
    range_call,             \* the get_frame_range call just made: its arguments, the
                            \* list it returned (images named by their pts)
    call,                   \* the seek_to_frame call in progress or last finished
    run,                    \* observation: the current run of strictly increasing requests
    \* ---- zin_video_player_imageio.py ----
    video_frames,           \* len(video_frames): frame i of the list is frame i of the video
    video_fps,              \* video_fps
    target_time,            \* target_time (ms)
    lookup,                 \* the last get_frame_at_time call: its time and the index it
                            \* returned the frame of (None when it returned None)
    \* ---- avf_frame_grabber.py used on its own ----
    libcall,                \* the last AVFFrameGrabber call: its inputs and what it returned
    \* ---- observation of handle ownership (AVF player and PyAV window) ----
    closes,                 \* close() calls made on the handle the window holds
    released                \* close() call counts of the handles the window let go

avfVars == <<grabber, video, current_frame, pending_ws_seek_time, timerLeft,
             sigQueue, running, uncaught, events, sinceUpdate, sinceSeek,
             nMsgs, in_grab, callers>>

globVars == <<should_reconnect, should_exit, is_playing>>

cvVars == <<video_cap, video_lock, cv_pc, in_cap>>

wsVars == <<ws_pc, server_up, ws_msg, conn, attempts, late, propagated>>

playVars == <<play_timer>>

vlcVars == <<vlc_player, vlc_lock, vlc_pc, vlc_msg, vlc_call>>

extVars == <<cvVars, wsVars, playVars, vlcVars>>

pyavVars == <<stream, total_frames, cursor, current_frame_num, current_image,
              pc, call, run, seeker, loads, window_open, range_call>>

ioVars == <<video_frames, video_fps, target_time, lookup>>

libVars == <<libcall>>

ownVars == <<closes, released>>

vars == <<prog, avfVars, pyavVars, ioVars, libVars, ownVars, globVars, extVars>>

----------------------------------------------------------------------------
(* Bounds of the model *)

(* WebSocket messages (timecode and video_info) handled in a run *)
MaxMsgs == 3

(* frame slots of a video stream *)
MaxFrames == 4

(* length up to which a run of increasing requests is counted *)
MaxRun == 2

(* load_video calls of the PyAV window *)
MaxLoads == 1

(* connection attempts of websocket_client that are counted *)
MaxAttempts == 2

(* width and height of a decoded image in pixels, padding bytes of a row *)
MaxWidth == 2
MaxHeight == 2
MaxPad == 1

(* Python's None, and a value that is not None *)
None == <<>>
Some(x) == <<x>>
ValueOf(o) == o[1]

(* A stopped QTimer *)
Inactive == -1

----------------------------------------------------------------------------
(* Arithmetic of the code *)

Max(a, b) == IF a >= b THEN a ELSE b
Min(a, b) == IF a <= b THEN a ELSE b

(* Python int(num / den) for den > 0: truncation toward zero *)
IntTrunc(num, den) ==
    IF num >= 0 THEN num \div den ELSE -((-num) \div den)

(* floor(num / den) for den > 0 *)
Floor(num, den) == num \div den

----------------------------------------------------------------------------
(* zin_avf_video_player.py *)

(* ws_seek_debounce_timer.start(30) *)
SettleMs == 30

(* granularity of the passage of time in the model *)
TickMs == SettleMs \div 2
ClockCap == SettleMs + TickMs

(* currentTime values a timecode message may carry, in ms *)
Times == {-700, 400, 1600}

(* What AVFFrameGrabber(video_path) finds: framerate (fps) and duration;     *)
(* "missing" cannot be opened.                                             *)
Paths == {"a.mp4", "short.mp4", "missing"}
Opens(p) == p # "missing"
PathFramerate(p) == IF p = "a.mp4" THEN 5 ELSE 1
PathDurationMs(p) == IF p = "a.mp4" THEN 1000 ELSE 500

(* AVFFrameGrabber.__init__: total_frames = int(duration_seconds * framerate) *)
GrabberInit(p) ==
    [framerate |-> PathFramerate(p),
     total_frames |-> IntTrunc(PathDurationMs(p) * PathFramerate(p), 1000)]

NoVideo == [framerate |-> 0, total_frames |-> 0]

(* Mutant: the range check misses the upper limit *)
GrabInRange_NoUpperLimit(v, frame_num) == ~(frame_num < 0)

(* AVFFrameGrabber.grab_frame_number's range check *)
GrabInRange(v, frame_num) == ~(frame_num < 0 \/ frame_num >= v.total_frames)

(* AVFFrameGrabber.grab_frame_number(frame_num) on grabber state g with      *)
(* metadata v; imageOk: the image generator returned an image.              *)
(*   result   None or the frame number whose image is returned             *)
(*   decoded  copyCGImageAtTime was called                                 *)
(*   raised   an exception leaves the call (generator is None after close) *)
(*   closed   the grabber had been closed when it was called               *)
grab_frame_number(g, v, frame_num, imageOk) ==
    IF ~GrabInRange(v, frame_num)
    THEN [result |-> None, decoded |-> FALSE, raised |-> FALSE,
          closed |-> g = "closed"]
    ELSE IF g = "closed"
    THEN [result |-> None, decoded |-> FALSE, raised |-> TRUE, closed |-> TRUE]
    ELSE IF imageOk
    THEN [result |-> Some(frame_num), decoded |-> TRUE, raised |-> FALSE,
          closed |-> FALSE]
    ELSE [result |-> None, decoded |-> TRUE, raised |-> FALSE, closed |-> FALSE]

(* perform_ws_seek: seconds to frame number, clamped *)
WsFrameNum(time_ms, v) ==
    Max(0, Min(IntTrunc(time_ms * v.framerate, 1000), v.total_frames - 1))

SeekEvent(src, t, frame_num, g, v) ==
    [kind |-> "seek", src |-> src, t |-> t, frame |-> frame_num,
     decoded |-> g.decoded, raised |-> g.raised, result |-> g.result,
     closed |-> g.closed,
     gap |-> sinceSeek,
     framerate |-> v.framerate, total_frames |-> v.total_frames]

UpdEvent(t) ==
    [kind |-> "upd", src |-> "ws", t |-> t, frame |-> 0,
     decoded |-> FALSE, raised |-> FALSE, result |-> None,
     closed |-> FALSE,
     gap |-> sinceUpdate,
     framerate |-> 0, total_frames |-> 0]

(* Mutant: the first pending target is kept until it has been sought *)
StorePending_KeepWhilePending(old, t) == IF old = None THEN Some(t) ELSE old

(* seek_to_time_seconds: self.pending_ws_seek_time = time_seconds *)
StorePending(old, t) == Some(t)

(* Mutant: a running timer is left running instead of being restarted *)
RestartTimer_NoRestart(left) == IF left = Inactive THEN SettleMs ELSE left

(* Mutant: the timer is started with no delay *)
RestartTimer_NoDelay(left) == 0

(* seek_to_time_seconds: ws_seek_debounce_timer.stop(); .start(30) *)
RestartTimer(left) == SettleMs

(* Mutant: the timer repeats instead of firing once *)
TimerAfterTimeout_Repeating == SettleMs

(* ws_seek_debounce_timer.setSingleShot(True): stopped after its timeout *)
TimerAfterTimeout == Inactive

(* The threads of the player: the GUI thread runs main and the Qt event    *)
(* loop, the WebSocket thread runs run_websocket_client.                   *)
Threads == {"gui", "ws"}

(* The window, its SignalEmitter and its QTimer are created by main. *)
ReceiverThread == "gui"

(* Mutant: the signals are connected directly, so a slot runs on the       *)
(* thread that emits                                                       *)
SlotThread_Direct(emitThread) == emitThread

(* seek_request.connect / load_video_request.connect with the default      *)
(* connection type: a signal emitted from another thread is queued and its *)
(* slot runs on the thread of the receiver                                 *)
SlotThread(emitThread) == ReceiverThread

(* no copyCGImageAtTime call in progress *)
NoGrab == [active |-> FALSE, frame |-> 0, ok |-> FALSE, msgs |-> 0]

(* the thread is not inside a slot or handler *)
ThreadFree(th) == ~in_grab[th].active

(* grab_frame_at_time entered on thread th: the image generator is working *)
(* when the call got as far as copyCGImageAtTime (msgs: the messages the   *)
(* WebSocket thread had handled by then)                                   *)
EnterGrab(th, frame_num, g) ==
    IF g.decoded
    THEN [in_grab EXCEPT ![th] = [active |-> TRUE, frame |-> frame_num,
                                  ok |-> g.result # None, msgs |-> nMsgs]]
    ELSE in_grab

(* Mutant: the image of a decode is discarded when an update arrived       *)
(* while it ran                                                            *)
DisplayedAfterGrab_DropIfSuperseded(g, cur, queue) ==
    IF g.ok /\ queue = <<>> THEN g.frame ELSE cur

(* display_frame: self.current_frame = frame_num when grab_frame_number    *)
(* returned an image, whatever signals were queued meanwhile               *)
DisplayedAfterGrab(g, cur, queue) == IF g.ok THEN g.frame ELSE cur

(* handle_timecode_message on the WebSocket thread: emits seek_request      *)
(* when a grabber exists; the slot runs later on the GUI thread.           *)
WsTimecode(t) ==
    /\ prog = "avf" /\ running /\ ThreadFree("ws")
    /\ nMsgs < MaxMsgs
    /\ nMsgs' = nMsgs + 1
    /\ sigQueue' = IF grabber # "none"
                   THEN Append(sigQueue, [sig |-> "seek_request", arg |-> t])
                   ELSE sigQueue
    /\ UNCHANGED <<ioVars, pyavVars, libVars, ownVars, prog, extVars, grabber, video,
                   current_frame, pending_ws_seek_time, timerLeft, running,
                   uncaught, events, sinceUpdate, sinceSeek, globVars,
                   in_grab, callers>>

(* handle_video_info_message on the WebSocket thread: emits load_video_request *)
WsVideoInfo(p) ==
    /\ prog = "avf" /\ running /\ ThreadFree("ws")
    /\ nMsgs < MaxMsgs
    /\ nMsgs' = nMsgs + 1
    /\ sigQueue' = Append(sigQueue, [sig |-> "load_video_request", arg |-> p])
    /\ UNCHANGED <<ioVars, pyavVars, libVars, ownVars, prog, extVars, grabber, video,
                   current_frame, pending_ws_seek_time, timerLeft, running,
                   uncaught, events, sinceUpdate, sinceSeek, globVars,
                   in_grab, callers>>

(* seek_to_time_seconds, the slot of seek_request *)
seek_to_time_seconds ==
    /\ prog = "avf" /\ running /\ ThreadFree(SlotThread("ws"))
    /\ sigQueue # <<>> /\ Head(sigQueue).sig = "seek_request"
    /\ sigQueue' = Tail(sigQueue)
    /\ IF grabber = "none"
       THEN UNCHANGED <<pending_ws_seek_time, timerLeft, events, sinceUpdate>>
       ELSE /\ pending_ws_seek_time' =
                   StorePending(pending_ws_seek_time, Head(sigQueue).arg)
            /\ timerLeft' = RestartTimer(timerLeft)
            /\ events' = Append(events, UpdEvent(Head(sigQueue).arg))
            /\ sinceUpdate' = 0
    /\ UNCHANGED <<ioVars, pyavVars, libVars, ownVars, prog, extVars, grabber, video,
                   current_frame, running, uncaught, sinceSeek, nMsgs,
                   globVars, in_grab, callers>>

(* load_video, the slot of load_video_request: closes the old grabber,      *)
(* opens the new one and calls display_frame(0); any exception is caught.  *)
(* When the new grabber cannot be opened, self.grabber keeps the old,      *)
(* closed one.                                                             *)
load_video(imageOk) ==
    /\ prog = "avf" /\ running /\ ThreadFree(SlotThread("ws"))
    /\ sigQueue # <<>> /\ Head(sigQueue).sig = "load_video_request"
    /\ sigQueue' = Tail(sigQueue)
    /\ LET p == Head(sigQueue).arg
           th == SlotThread("ws")
           v == GrabberInit(p)
           g == grab_frame_number("open", v, 0, imageOk)
           closed_now == IF grabber # "none" THEN closes + 1 ELSE closes
       IN IF ~Opens(p)
          THEN /\ grabber' = IF grabber = "none" THEN "none" ELSE "closed"
               /\ closes' = closed_now
               /\ callers' = IF grabber # "none" THEN callers \cup {th}
                             ELSE callers
               /\ UNCHANGED <<video, current_frame, events, sinceSeek,
                              in_grab, released>>
          ELSE /\ grabber' = "open"
               /\ closes' = 0
               /\ released' = IF grabber # "none"
                              THEN released \cup {closed_now} ELSE released
               /\ callers' = callers \cup {th}
               /\ video' = v
               /\ current_frame' = 0
               /\ events' = Append(events, SeekEvent("load", 0, 0, g, v))
               /\ sinceSeek' = 0
               /\ in_grab' = EnterGrab(th, 0, g)
    /\ UNCHANGED <<ioVars, pyavVars, libVars, prog, extVars, pending_ws_seek_time, timerLeft,
                   running, uncaught, sinceUpdate, nMsgs, globVars>>

(* perform_ws_seek, the slot of the debounce timer's timeout, on the       *)
(* thread of the timer                                                     *)
perform_ws_seek(imageOk, aborts) ==
    /\ prog = "avf" /\ running /\ ThreadFree(ReceiverThread)
    /\ timerLeft = 0
    /\ timerLeft' = TimerAfterTimeout
    /\ IF grabber = "none" \/ pending_ws_seek_time = None
       THEN UNCHANGED <<events, sinceSeek, running, uncaught, in_grab,
                        callers>>
       ELSE LET time_ms == ValueOf(pending_ws_seek_time)
                frame_num == WsFrameNum(time_ms, video)
                g == grab_frame_number(grabber, video, frame_num, imageOk)
            IN /\ events' = Append(events,
                       SeekEvent("ws", time_ms, frame_num, g, video))
               /\ sinceSeek' = 0
               /\ in_grab' = EnterGrab(ReceiverThread, frame_num, g)
               /\ callers' = callers \cup {ReceiverThread}
               /\ uncaught' = (uncaught \/ g.raised)
               /\ running' = IF g.raised /\ aborts THEN FALSE ELSE running
    /\ UNCHANGED <<ioVars, pyavVars, libVars, ownVars, prog, extVars, grabber, video,
                   current_frame, pending_ws_seek_time, sigQueue, sinceUpdate,
                   nMsgs, globVars>>

(* copyCGImageAtTime returns on thread th: grab_frame_number returns to    *)
(* display_frame, which shows the image and sets current_frame             *)
display_frame_return(th) ==
    /\ prog = "avf" /\ running
    /\ in_grab[th].active
    /\ current_frame' = DisplayedAfterGrab(in_grab[th], current_frame, sigQueue)
    /\ in_grab' = [in_grab EXCEPT ![th] = NoGrab]
    /\ UNCHANGED <<ioVars, pyavVars, libVars, ownVars, prog, extVars, grabber, video,
                   pending_ws_seek_time, timerLeft, sigQueue, running,
                   uncaught, events, sinceUpdate, sinceSeek, nMsgs,
                   globVars, callers>>

(* closeEvent of the AVF window: closes the grabber it holds; the          *)
(* application quits with its last window                                  *)
closeEvent ==
    /\ prog \in {"avf", "wsclient"} /\ running /\ ThreadFree(ReceiverThread)
    /\ should_reconnect' = FALSE
    /\ should_exit' = TRUE
    /\ UNCHANGED is_playing
    /\ running' = FALSE
    /\ IF grabber = "none"
       THEN UNCHANGED <<grabber, closes, callers>>
       ELSE /\ grabber' = "closed"
            /\ closes' = closes + 1
            /\ callers' = callers \cup {ReceiverThread}
    /\ UNCHANGED <<ioVars, pyavVars, libVars, prog, extVars, video, current_frame,
                   pending_ws_seek_time, timerLeft, sigQueue, uncaught, events,
                   sinceUpdate, sinceSeek, nMsgs, in_grab, released>>

(* Time passes; it cannot pass the deadline of a running timer, and the    *)
(* work of a slot takes none of it.                                        *)
Tick ==
    /\ prog = "avf" /\ running
    /\ \A th \in Threads : ThreadFree(th)
    /\ timerLeft # 0
    /\ LET d == IF timerLeft # Inactive THEN Min(TickMs, timerLeft) ELSE TickMs
       IN /\ timerLeft' = IF timerLeft = Inactive THEN Inactive ELSE timerLeft - d
          /\ sinceUpdate' = Min(ClockCap, sinceUpdate + d)
          /\ sinceSeek' = Min(ClockCap, sinceSeek + d)
    /\ UNCHANGED <<ioVars, pyavVars, libVars, ownVars, prog, extVars, grabber, video,
                   current_frame, pending_ws_seek_time, sigQueue, running,
                   uncaught, events, nMsgs, globVars, in_grab, callers>>

----------------------------------------------------------------------------
(* zin_pyav_frame_seeker.py: PyAVFrameSeeker *)

(* The video streams av.open may find.  A frame slot s has pts             *)
(* start + s * 2 in units of time_base = 1 / tb; one slot may be missing   *)
(* (a dropped frame, variable frame rate); every gop-th frame is a         *)
(* keyframe; frames is stream.frames (0 when the container does not report *)
(* it) and duration is stream.duration (0 for None).  lands says what the  *)
(* demuxer of this container does with a seek to a time before the first  *)
(* keyframe: position at the first frame, or report an error.             *)
SlotPts(start, s) == start + s * 2

RECURSIVE PtsOf(_, _, _)
PtsOf(start, drop, n) ==
    IF n = 0 THEN <<>>
    ELSE IF n - 1 = drop THEN PtsOf(start, drop, n - 1)
    ELSE Append(PtsOf(start, drop, n - 1), SlotPts(start, n - 1))

MkStream(start, drop, gop, fr, meta, lands) ==
    LET pts == PtsOf(start, drop, MaxFrames)
    IN [pts |-> pts,
        key |-> [i \in 1..Len(pts) |-> (i - 1) % gop = 0],
        tb |-> 2 * fr,
        framerate |-> fr,
        frames |-> IF meta = "frames" THEN Len(pts) ELSE 0,
        duration |-> IF meta = "duration" THEN 2 * MaxFrames
                     ELSE IF meta = "long" THEN 2 * (MaxFrames + 1)
                     ELSE 0,
        lands |-> lands]

(* a stream that starts at time 0 has a keyframe at or before every seek *)
LandsOf(start) == IF start = 0 THEN {TRUE} ELSE BOOLEAN

Streams ==
    UNION {{MkStream(start, drop, gop, fr, meta, lands) :
               drop \in {-1} \cup 1..(MaxFrames - 1),
               gop \in {1, 2}, fr \in {1, 2},
               meta \in {"frames", "duration", "long", "unknown"},
               lands \in LandsOf(start)} : start \in {0, 1, 2}}

(* PyAVFrameSeeker.__init__: total_frames from stream.frames, else from    *)
(* the duration                                                            *)
InitTotalFrames(st) ==
    IF st.frames # 0 THEN st.frames
    ELSE IF st.duration # 0
         THEN IntTrunc(st.duration * st.framerate, st.tb)
         ELSE 0

(* int(frame.pts * self.time_base * self.framerate) *)
FrameIndexOf(st, pts) == IntTrunc(pts * st.framerate, st.tb)

(* sec = int(frame_num / self.framerate) *)
SeekSec(st, frame_num) == IntTrunc(frame_num, st.framerate)

(* the keyframes at or before sec seconds *)
KeyframesUpTo(st, sec) ==
    {i \in 1..Len(st.pts) : st.key[i] /\ st.pts[i] <= sec * st.tb}

(* container.seek(sec * 1000000, backward=True): the decode position moves *)
(* to the last keyframe at or before sec seconds.  When the stream has no  *)
(* keyframe there (it starts later), the demuxer either positions at the   *)
(* first frame or reports an error (st.lands), which seek_to_frame catches. *)
SeekLanding(st, sec) ==
    LET at == KeyframesUpTo(st, sec)
    IN IF at = {} THEN 1 ELSE CHOOSE i \in at : \A j \in at : j <= i

SeekFails(st, sec) == KeyframesUpTo(st, sec) = {} /\ ~st.lands

(* Mutant: the upper limit of the range check is off by one *)
SeekInRange_OffByOne(total, frame_num) == ~(frame_num < 0 \/ frame_num > total)

(* seek_to_frame's range check *)
SeekInRange(total, frame_num) == ~(frame_num < 0 \/ frame_num >= total)

(* for _ in range(sec_frame, frame_num): the number of iterations *)
LoopCount(sec_frame, frame_num) == Max(0, frame_num - sec_frame)

(* next(self.container.decode(video=0)) raises StopIteration *)
Exhausted(st, cur) == cur > Len(st.pts)

(* Mutant: a request past the current frame reuses the decode cursor *)
KeyframeSeekNeeded_ForwardReuse(frame_num) ==
    current_image = None \/ frame_num <= current_frame_num

(* Mutant: a request for the frame that is current reuses the decode cursor *)
KeyframeSeekNeeded_OnlyOnChange(frame_num) ==
    current_image = None \/ frame_num # current_frame_num

(* seek_to_frame calls container.seek on every in-range request *)
KeyframeSeekNeeded(frame_num) == TRUE

(* Mutant: the loop swallows StopIteration and tries again *)
OnStopIteration_Retry(c) == c

(* except StopIteration: return None *)
OnStopIteration(c) == [c EXCEPT !.done = TRUE, !.decodes = @ + 1]

NoCall ==
    [op |-> "none", arg |-> 0, done |-> TRUE, result |-> None,
     seeks |-> 0, decodes |-> 0, frame |-> 0, remaining |-> 0,
     num_before |-> 0, image_before |-> None,
     closed |-> FALSE, raised |-> FALSE,
     again |-> FALSE, prev_result |-> None, trip |-> None]

(* no get_frame_range call was just made, or it returned the empty list   *)
(* for an invalid range                                                    *)
NoRange ==
    [valid |-> FALSE, start |-> 0, end |-> 0, frames |-> <<>>,
     image_before |-> None]

(* The record of a call: its argument and result, the container.seek and   *)
(* decode calls it made, and what it found: the current frame number and  *)
(* image, whether the container had been closed, whether an exception      *)
(* leaves the call (both except clauses return None), and whether it       *)
(* follows a call for the same frame number (again, with that call's       *)
(* result).                                                                *)
(* trip: for a get_next_frame that follows a seek_to_frame(f) that         *)
(* returned a frame, f and that frame; for the get_previous_frame that     *)
(* follows such a get_next_frame, the same and whether get_next_frame      *)
(* returned a frame (moved).                                               *)
TripOf(op) ==
    IF op = "get_next_frame" /\ call.op = "seek_to_frame"
          /\ call.result # None
    THEN Some([f |-> call.arg, image |-> call.result, moved |-> FALSE])
    ELSE IF op = "get_previous_frame" /\ call.op = "get_next_frame"
               /\ call.trip # None
    THEN Some([ValueOf(call.trip) EXCEPT !.moved = call.result # None])
    ELSE None

NewCall(op, frame_num) ==
    [op |-> op, arg |-> frame_num, done |-> FALSE, result |-> None,
     seeks |-> 0, decodes |-> 0, frame |-> 0, remaining |-> 0,
     num_before |-> current_frame_num, image_before |-> current_image,
     closed |-> seeker = "closed", raised |-> FALSE,
     again |-> (call.op # "none" /\ call.arg = frame_num),
     prev_result |-> IF call.op # "none" /\ call.arg = frame_num
                     THEN call.result ELSE None,
     trip |-> TripOf(op)]

(* the run of strictly increasing requests, with request frame_num added:  *)
(* its length, its requests inside [0, total_frames) and its keyframe seeks *)
RunWith(frame_num, seeked) ==
    LET valid == IF 0 <= frame_num /\ frame_num < total_frames THEN 1 ELSE 0
    IN IF call.op # "none" /\ frame_num > call.arg
       THEN [len |-> Min(MaxRun, run.len + 1),
             seeks |-> Min(MaxRun, run.seeks + seeked),
             valid |-> Min(MaxRun, run.valid + valid)]
       ELSE [len |-> 1, seeks |-> seeked, valid |-> valid]

(* container.seek on a closed container raises; except Exception catches   *)
(* it and seek_to_frame returns None                                       *)
OnClosedContainer(c) == [c EXCEPT !.done = TRUE]

(* seek_to_frame(frame_num) up to container.seek: the range check and the  *)
(* keyframe seek                                                           *)
SeekBody(op, frame_num) ==
    /\ IF ~SeekInRange(total_frames, frame_num)
       THEN /\ call' = [NewCall(op, frame_num) EXCEPT !.done = TRUE]
            /\ run' = RunWith(frame_num, 0)
            /\ pc' = "idle"
            /\ UNCHANGED cursor
       ELSE IF seeker = "closed"
       THEN /\ call' = OnClosedContainer(
                           [NewCall(op, frame_num) EXCEPT !.seeks = 1])
            /\ run' = RunWith(frame_num, 1)
            /\ pc' = "idle"
            /\ UNCHANGED cursor
       ELSE LET seeked == IF KeyframeSeekNeeded(frame_num) THEN 1 ELSE 0
                sec == SeekSec(stream, frame_num)
                failed == seeked = 1 /\ SeekFails(stream, sec)
            IN /\ cursor' = IF seeked = 1 /\ ~failed
                             THEN SeekLanding(stream, sec)
                             ELSE cursor
               /\ call' = [NewCall(op, frame_num) EXCEPT !.seeks = seeked,
                                                         !.done = failed]
               /\ run' = RunWith(frame_num, seeked)
               /\ pc' = IF failed THEN "idle" ELSE "first"
    /\ range_call' = NoRange
    /\ UNCHANGED <<ioVars, avfVars, globVars, libVars, ownVars, prog, extVars, seeker, loads, window_open, stream,
                   total_frames, current_frame_num, current_image>>

(* a call of seek_to_frame(frame_num) *)
SeekEnter(op, frame_num) ==
    /\ prog = "pyav" /\ pc = "idle" /\ window_open
    /\ SeekBody(op, frame_num)

seek_to_frame(frame_num) == SeekEnter("seek_to_frame", frame_num)

get_next_frame_Stay ==
    SeekEnter("get_next_frame", current_frame_num)

get_next_frame ==
    SeekEnter("get_next_frame", current_frame_num + 1)

get_previous_frame ==
    SeekEnter("get_previous_frame", current_frame_num - 1)

(* frame = next(self.container.decode(video=0)); sec_frame = ... *)
DecodeFirst ==
    /\ prog = "pyav" /\ pc = "first"
    /\ IF Exhausted(stream, cursor)
       THEN /\ call' = OnStopIteration(call)
            /\ pc' = IF call'.done THEN "idle" ELSE pc
            /\ UNCHANGED cursor
       ELSE /\ call' = [call EXCEPT
                    !.frame = cursor, !.decodes = @ + 1,
                    !.remaining = LoopCount(
                        FrameIndexOf(stream, stream.pts[cursor]), call.arg)]
            /\ cursor' = cursor + 1
            /\ pc' = "loop"
    /\ UNCHANGED <<ioVars, avfVars, globVars, libVars, ownVars, prog, extVars, seeker, loads, window_open, range_call,
                   stream, total_frames, current_frame_num,
                   current_image, run>>

(* one iteration of the decode-forward loop *)
DecodeLoop ==
    /\ prog = "pyav" /\ pc = "loop" /\ call.remaining > 0
    /\ IF Exhausted(stream, cursor)
       THEN /\ call' = OnStopIteration(call)
            /\ pc' = IF call'.done THEN "idle" ELSE pc
            /\ UNCHANGED cursor
       ELSE /\ call' = [call EXCEPT !.frame = cursor, !.decodes = @ + 1,
                                    !.remaining = @ - 1]
            /\ cursor' = cursor + 1
            /\ UNCHANGED pc
    /\ UNCHANGED <<ioVars, avfVars, globVars, libVars, ownVars, prog, extVars, seeker, loads, window_open, range_call,
                   stream, total_frames, current_frame_num,
                   current_image, run>>

(* after the loop: current_frame, current_frame_num, return *)
SeekReturn ==
    /\ prog = "pyav" /\ pc = "loop" /\ call.remaining = 0
    /\ current_image' = Some(stream.pts[call.frame])
    /\ current_frame_num' = call.arg
    /\ call' = [call EXCEPT !.done = TRUE,
                            !.result = Some(stream.pts[call.frame])]
    /\ pc' = "idle"
    /\ UNCHANGED <<ioVars, avfVars, globVars, libVars, ownVars, prog, extVars, seeker, loads, window_open, range_call,
                   stream, total_frames, cursor, run>>

(* seek_to_frame(frame_num) from the range check to its return, in one    *)
(* piece: the call record it ends with and where it leaves the cursor     *)
SeekOutcome(frame_num) ==
    LET c0 == NewCall("get_frame_range", frame_num)
        seeked == IF KeyframeSeekNeeded(frame_num) THEN 1 ELSE 0
        sec == SeekSec(stream, frame_num)
        first == IF seeked = 1 THEN SeekLanding(stream, sec) ELSE cursor
        n == LoopCount(FrameIndexOf(stream, stream.pts[first]), frame_num)
        avail == Len(stream.pts) - first
    IN IF ~SeekInRange(total_frames, frame_num)
       THEN [call |-> [c0 EXCEPT !.done = TRUE], cursor |-> cursor]
       ELSE IF seeker = "closed"
       THEN [call |-> OnClosedContainer([c0 EXCEPT !.seeks = 1]),
             cursor |-> cursor]
       ELSE IF seeked = 1 /\ SeekFails(stream, sec)
       THEN [call |-> [c0 EXCEPT !.seeks = 1, !.done = TRUE],
             cursor |-> cursor]
       ELSE IF Exhausted(stream, first)
       THEN [call |-> OnStopIteration([c0 EXCEPT !.seeks = seeked]),
             cursor |-> first]
       ELSE IF n > avail
       THEN [call |-> OnStopIteration(
                          [c0 EXCEPT !.seeks = seeked,
                                     !.decodes = avail + 1,
                                     !.frame = Len(stream.pts),
                                     !.remaining = n - avail]),
             cursor |-> Len(stream.pts) + 1]
       ELSE [call |-> [c0 EXCEPT !.seeks = seeked, !.decodes = n + 1,
                                 !.frame = first + n, !.done = TRUE,
                                 !.result = Some(stream.pts[first + n])],
             cursor |-> first + n + 1]

(* for frame_num in range(start_frame + 1, end_frame + 1):                 *)
(* next(self.container.decode(video=0)), from decode position cur, until   *)
(* StopIteration (or the error of a closed container)                      *)
DecodedAfter(cur, count) ==
    IF seeker = "closed" THEN <<>>
    ELSE [i \in 1..Min(count, Max(0, Len(stream.pts) + 1 - cur)) |->
             stream.pts[cur + i - 1]]

(* PyAVFrameSeeker.get_frame_range(start_frame, end_frame) *)
get_frame_range(start_frame, end_frame) ==
    /\ prog = "pyav" /\ pc = "idle" /\ window_open
    /\ IF start_frame < 0 \/ end_frame >= total_frames
             \/ start_frame > end_frame
       THEN /\ range_call' = NoRange
            /\ UNCHANGED <<call, run, cursor, current_image,
                           current_frame_num>>
       ELSE LET o == SeekOutcome(start_frame)
                image == IF o.call.result # None THEN o.call.result
                         ELSE current_image
                rest == DecodedAfter(o.cursor, end_frame - start_frame)
            IN /\ call' = NoCall
               /\ run' = [len |-> 0, seeks |-> 0, valid |-> 0]
               /\ current_image' = image
               /\ current_frame_num' = IF o.call.result # None
                                       THEN start_frame
                                       ELSE current_frame_num
               /\ cursor' = o.cursor + Len(rest)
               /\ range_call' =
                     [valid |-> TRUE,
                      start |-> start_frame, end |-> end_frame,
                      image_before |-> current_image,
                      frames |-> (IF image # None THEN <<ValueOf(image)>>
                                  ELSE <<>>) \o rest]
    /\ UNCHANGED <<ioVars, avfVars, globVars, libVars, ownVars, prog, extVars, stream,
                   total_frames, pc, seeker, loads, window_open>>

(* a video the window opens after the first one *)
OtherVideo == MkStream(0, -1, 2, 1, "frames", TRUE)

(* VideoPlayerWindow.load_video up to display_frame(0): closes the seeker  *)
(* it holds and constructs a new one; when av.open raises, self.seeker     *)
(* keeps the old, closed seeker and a message box is shown.                *)
pyav_load_video(opens, st) ==
    /\ prog = "pyav" /\ pc = "idle" /\ window_open
    /\ loads < MaxLoads
    /\ loads' = loads + 1
    /\ call' = NoCall
    /\ run' = [len |-> 0, seeks |-> 0, valid |-> 0]
    /\ IF ~opens
       THEN /\ seeker' = "closed"
            /\ closes' = closes + 1
            /\ UNCHANGED <<stream, total_frames, cursor, current_frame_num,
                           current_image, pc, released>>
       ELSE /\ seeker' = "open"
            /\ closes' = 0
            /\ released' = released \cup {closes + 1}
            /\ stream' = st
            /\ total_frames' = InitTotalFrames(st)
            /\ cursor' = 1
            /\ current_frame_num' = 0
            /\ current_image' = None
            /\ pc' = "load"
    /\ range_call' = NoRange
    /\ UNCHANGED <<ioVars, avfVars, globVars, libVars, prog, extVars, window_open>>

(* VideoPlayerWindow.load_video: display_frame(0) of the new seeker *)
pyav_display_first_frame ==
    /\ prog = "pyav" /\ pc = "load"
    /\ SeekBody("load_video", 0)

(* VideoPlayerWindow.closeEvent: closes the seeker it holds; the            *)
(* application quits with its last window                                  *)
pyav_closeEvent ==
    /\ prog = "pyav" /\ pc = "idle" /\ window_open
    /\ window_open' = FALSE
    /\ seeker' = "closed"
    /\ closes' = closes + 1
    /\ UNCHANGED <<ioVars, avfVars, globVars, libVars, prog, extVars, stream, total_frames, cursor,
                   current_frame_num, current_image, pc, call, run, loads,
                   released, range_call>>

NoStream ==
    [pts |-> <<>>, key |-> <<>>, tb |-> 1, framerate |-> 1, frames |-> 0,
     duration |-> 0, lands |-> TRUE]

PyAVIdle ==
    /\ stream = NoStream /\ total_frames = 0 /\ cursor = 1
    /\ current_frame_num = 0 /\ current_image = None
    /\ pc = "idle" /\ call = NoCall
    /\ run = [len |-> 0, seeks |-> 0, valid |-> 0]
    /\ seeker = "none" /\ loads = 0 /\ window_open = FALSE
    /\ range_call = NoRange

(* no handle opened and none closed *)
NoHandles == closes = 0 /\ released = {}

AVFIdle ==
    /\ grabber = "none"
    /\ video = NoVideo
    /\ current_frame = 0
    /\ pending_ws_seek_time = None
    /\ timerLeft = Inactive
    /\ sigQueue = <<>>
    /\ running = TRUE
    /\ uncaught = FALSE
    /\ events = <<>>
    /\ sinceUpdate = ClockCap
    /\ sinceSeek = ClockCap
    /\ nMsgs = 0
    /\ should_reconnect = TRUE
    /\ should_exit = FALSE
    /\ is_playing = FALSE
    /\ in_grab = [th \in Threads |-> NoGrab]
    /\ callers = {}

----------------------------------------------------------------------------
(* zin_video_player_imageio.py *)

(* video_fps = 60.0 before any video is loaded *)
DefaultFps == 60

(* frame rates of the videos load_video may open *)
IoFps == {2, 5}

(* load_video(url): clears video_frames, opens the video, sets video_fps   *)
(* and appends the decoded frames.  opened = FALSE: av.open fails; loaded  *)
(* is the number of frames decoded before the end or before an error.      *)
io_load_video(opened, fps, loaded) ==
    /\ prog = "imageio"
    /\ video_frames' = IF opened THEN loaded ELSE 0
    /\ video_fps' = IF opened THEN fps ELSE video_fps
    /\ UNCHANGED <<avfVars, globVars, pyavVars, libVars, ownVars, prog, extVars, target_time, lookup>>

(* Mutant: the index is not clamped from below *)
IoFrameIndex_NoLowerClamp(time_ms, fps, n) ==
    Min(IntTrunc(time_ms * fps, 1000), n - 1)

(* get_frame_at_time: frame_index = int(time_seconds * video_fps), clamped *)
IoFrameIndex(time_ms, fps, n) ==
    Max(0, Min(IntTrunc(time_ms * fps, 1000), n - 1))

(* get_frame_at_time(time_seconds) *)
get_frame_at_time(time_ms) ==
    IF video_frames = 0 THEN None
    ELSE Some(IoFrameIndex(time_ms, video_fps, video_frames))

(* seek_video(time_seconds), called by handle_timecode_message *)
seek_video(time_ms) ==
    /\ prog = "imageio"
    /\ target_time' = time_ms
    /\ lookup' = [t |-> time_ms, index |-> get_frame_at_time(time_ms),
                  fps |-> video_fps, n |-> video_frames]
    /\ UNCHANGED <<avfVars, globVars, pyavVars, libVars, ownVars, prog, extVars, video_frames, video_fps>>

NoLookup == [t |-> 0, index |-> None, fps |-> 0, n |-> 0]

IoIdle ==
    /\ video_frames = 0 /\ video_fps = DefaultFps /\ target_time = 0
    /\ lookup = NoLookup

----------------------------------------------------------------------------
(* avf_frame_grabber.py: AVFFrameGrabber used on its own *)

(* Byte layouts of a pixel of the decoded CGImage, in memory order ("A":    *)
(* alpha or a skipped byte)                                                *)
Layouts ==
    {<<"B", "G", "R", "A">>, <<"R", "G", "B", "A">>, <<"A", "R", "G", "B">>,
     <<"A", "B", "G", "R">>, <<"B", "G", "R">>, <<"R", "G", "B">>}

(* A decoded image: image_width w, image_height h, pixel layout, padding   *)
(* bytes at the end of each row                                            *)
Images ==
    [w : 1..MaxWidth, h : 1..MaxHeight, layout : Layouts, pad : 0..MaxPad]

NoImage == [w |-> 0, h |-> 0, layout |-> <<>>, pad |-> 0]

(* bits_per_pixel // 8 *)
BytesPerPixel(img) == Len(img.layout)

(* CGImageGetBytesPerRow *)
BytesPerRow(img) == img.w * BytesPerPixel(img) + img.pad

(* CGDataProviderCopyData: byte k (from 0) of the image data, named by the *)
(* row, column and channel it holds; bytes past the pixels of a row are    *)
(* padding                                                                 *)
ImageByte(img, k) ==
    LET r == k \div BytesPerRow(img)
        o == k % BytesPerRow(img)
    IN IF o < img.w * BytesPerPixel(img)
       THEN [r |-> r, c |-> o \div BytesPerPixel(img),
             ch |-> img.layout[(o % BytesPerPixel(img)) + 1]]
       ELSE [r |-> r, c |-> -1, ch |-> "pad"]

ImageData(img) ==
    [k \in 1..(img.h * BytesPerRow(img)) |-> ImageByte(img, k - 1)]

(* frame_array.reshape((image_height, bytes_per_row)) and                  *)
(* frame_array[:, :actual_row_bytes]: row r (from 0) without its padding   *)
TrimmedRow(img, data, r) ==
    [o \in 1..(img.w * BytesPerPixel(img)) |-> data[r * BytesPerRow(img) + o]]

(* reshape((image_height, image_width, bytes_per_pixel)): pixel c of a row *)
PixelOf(img, row, c) ==
    [b \in 1..BytesPerPixel(img) |-> row[c * BytesPerPixel(img) + b]]

(* frame_rgb[:, :, 0] = frame_array[:, :, 2], [1] = [1], [2] = [0] for 3   *)
(* and 4 bytes per pixel; other pixel sizes are returned as they are       *)
ToRGB(px) ==
    IF Len(px) = 4 \/ Len(px) = 3 THEN <<px[3], px[2], px[1]>> ELSE px

(* the array grab_frame_at_time returns for the image: rows of pixels *)
FrameArray(img) ==
    [r \in 1..img.h |->
        [c \in 1..img.w |->
            ToRGB(PixelOf(img, TrimmedRow(img, ImageData(img), r - 1), c - 1))]]

NoLibCall ==
    [op |-> "none", image |-> NoImage, out |-> <<>>,
     total |-> 0, start |-> 0, end |-> 0, bad |-> {}, frames |-> <<>>]

(* AVFFrameGrabber.grab_frame_at_time when the generator returns image img *)
grab_frame_at_time(img) ==
    /\ prog = "grabber"
    /\ libcall' = [NoLibCall EXCEPT !.op = "grab_frame_at_time",
                                    !.image = img, !.out = FrameArray(img)]
    /\ UNCHANGED <<avfVars, globVars, pyavVars, ioVars, ownVars, prog, extVars>>

RECURSIVE GrabbedUpTo(_, _, _)
(* for frame_num in range(start_frame, end_frame + 1): the frames appended, *)
(* bad being the frames for which grab_frame_number returns None           *)
GrabbedUpTo(start_frame, last, bad) ==
    IF last < start_frame THEN <<>>
    ELSE IF last \in bad THEN GrabbedUpTo(start_frame, last - 1, bad)
    ELSE Append(GrabbedUpTo(start_frame, last - 1, bad), last)

(* AVFFrameGrabber.get_frame_range(start_frame, end_frame) on a grabber    *)
(* with total frames; the list returned, each image named by its frame     *)
avf_get_frame_range(total, start_frame, end_frame, bad) ==
    /\ prog = "grabber"
    /\ libcall' =
          [NoLibCall EXCEPT
              !.op = "get_frame_range", !.total = total,
              !.start = start_frame, !.end = end_frame, !.bad = bad,
              !.frames =
                  IF start_frame < 0 \/ end_frame >= total
                         \/ start_frame > end_frame
                  THEN <<>>
                  ELSE GrabbedUpTo(start_frame, end_frame, bad)]
    /\ UNCHANGED <<avfVars, globVars, pyavVars, ioVars, ownVars, prog, extVars>>

LibIdle == libcall = NoLibCall

----------------------------------------------------------------------------
(* zin_video_player.py: the OpenCV player *)

(* the WebSocket thread (websocket_thread_func) and the main thread, which *)
(* runs video_player_thread                                                *)
CvThreads == {"ws", "main"}

(* what the OpenCV player leaves alone *)
CvOthers ==
    <<prog, avfVars, pyavVars, ioVars, libVars, ownVars, wsVars, playVars,
      vlcVars>>

(* a call on the capture object made by thread th, holding video_lock or not *)
CapCall(th, op) == Some([op |-> op, locked |-> video_lock = th])

(* the daemon WebSocket thread runs until the main thread has returned *)
CvRunning == cv_pc["main"] # "done"

(* seek_video: with video_lock *)
cv_seek_acquire ==
    /\ prog = "opencv" /\ CvRunning
    /\ cv_pc["ws"] = "idle" /\ video_lock = "free"
    /\ video_lock' = "ws"
    /\ cv_pc' = [cv_pc EXCEPT !["ws"] = "seek_check"]
    /\ UNCHANGED <<video_cap, in_cap>>
    /\ UNCHANGED <<globVars, CvOthers>>

(* seek_video: if video_cap is None or not video_cap.isOpened(): return;   *)
(* else video_cap.set(CAP_PROP_POS_MSEC, ...)                              *)
cv_seek_check ==
    /\ prog = "opencv" /\ CvRunning
    /\ cv_pc["ws"] = "seek_check"
    /\ IF video_cap # "open"
       THEN /\ video_lock' = "free"
            /\ cv_pc' = [cv_pc EXCEPT !["ws"] = "idle"]
            /\ UNCHANGED in_cap
       ELSE /\ in_cap' = [in_cap EXCEPT !["ws"] = CapCall("ws", "set")]
            /\ cv_pc' = [cv_pc EXCEPT !["ws"] = "seek_set"]
            /\ UNCHANGED video_lock
    /\ UNCHANGED video_cap
    /\ UNCHANGED <<globVars, CvOthers>>

(* seek_video: set returns; ret, frame = video_cap.read() *)
cv_seek_read ==
    /\ prog = "opencv" /\ CvRunning
    /\ cv_pc["ws"] = "seek_set"
    /\ in_cap' = [in_cap EXCEPT !["ws"] = CapCall("ws", "read")]
    /\ cv_pc' = [cv_pc EXCEPT !["ws"] = "seek_read"]
    /\ UNCHANGED <<video_cap, video_lock>>
    /\ UNCHANGED <<globVars, CvOthers>>

(* seek_video: read returns, the frame is cached, the lock is released *)
cv_seek_return ==
    /\ prog = "opencv" /\ CvRunning
    /\ cv_pc["ws"] = "seek_read"
    /\ in_cap' = [in_cap EXCEPT !["ws"] = None]
    /\ video_lock' = "free"
    /\ cv_pc' = [cv_pc EXCEPT !["ws"] = "idle"]
    /\ UNCHANGED video_cap
    /\ UNCHANGED <<globVars, CvOthers>>

(* load_video: with video_lock; if video_cap is not None: video_cap.release() *)
cv_load_acquire ==
    /\ prog = "opencv" /\ CvRunning
    /\ cv_pc["ws"] = "idle" /\ video_lock = "free"
    /\ video_lock' = "ws"
    /\ IF video_cap # "none"
       THEN /\ in_cap' = [in_cap EXCEPT !["ws"] = Some([op |-> "release",
                                                         locked |-> TRUE])]
            /\ cv_pc' = [cv_pc EXCEPT !["ws"] = "load_release"]
       ELSE /\ cv_pc' = [cv_pc EXCEPT !["ws"] = "load_open"]
            /\ UNCHANGED in_cap
    /\ UNCHANGED video_cap
    /\ UNCHANGED <<globVars, CvOthers>>

(* load_video: release returns *)
cv_load_released ==
    /\ prog = "opencv" /\ CvRunning
    /\ cv_pc["ws"] = "load_release"
    /\ in_cap' = [in_cap EXCEPT !["ws"] = None]
    /\ video_cap' = "released"
    /\ cv_pc' = [cv_pc EXCEPT !["ws"] = "load_open"]
    /\ UNCHANGED video_lock
    /\ UNCHANGED <<globVars, CvOthers>>

(* load_video: video_cap = cv2.VideoCapture(filename); isOpened(); the     *)
(* lock is released on both returns                                        *)
cv_load_open(opens) ==
    /\ prog = "opencv" /\ CvRunning
    /\ cv_pc["ws"] = "load_open"
    /\ video_cap' = IF opens THEN "open" ELSE "unopened"
    /\ video_lock' = "free"
    /\ cv_pc' = [cv_pc EXCEPT !["ws"] = "idle"]
    /\ UNCHANGED in_cap
    /\ UNCHANGED <<globVars, CvOthers>>

(* handle_play_message / handle_pause_message *)
cv_set_playing(playing) ==
    /\ prog = "opencv" /\ CvRunning
    /\ cv_pc["ws"] = "idle"
    /\ is_playing' = playing
    /\ UNCHANGED <<should_reconnect, should_exit, cvVars>>
    /\ UNCHANGED CvOthers

(* video_player_thread: while not should_exit: ... with video_lock *)
cv_loop_top ==
    /\ prog = "opencv"
    /\ cv_pc["main"] = "top"
    /\ IF should_exit
       THEN /\ cv_pc' = [cv_pc EXCEPT !["main"] = "end"]
            /\ UNCHANGED video_lock
       ELSE /\ video_lock = "free"
            /\ video_lock' = "main"
            /\ cv_pc' = [cv_pc EXCEPT !["main"] = "body"]
    /\ UNCHANGED <<video_cap, in_cap>>
    /\ UNCHANGED <<globVars, CvOthers>>

(* video_player_thread, inside the lock: video_cap.read() when a video is  *)
(* open and playing, else the cached frame                                 *)
cv_loop_body ==
    /\ prog = "opencv"
    /\ cv_pc["main"] = "body"
    /\ IF video_cap = "open" /\ is_playing
       THEN /\ in_cap' = [in_cap EXCEPT !["main"] = CapCall("main", "read")]
            /\ cv_pc' = [cv_pc EXCEPT !["main"] = "read"]
            /\ UNCHANGED video_lock
       ELSE /\ video_lock' = "free"
            /\ cv_pc' = [cv_pc EXCEPT !["main"] = "show"]
            /\ UNCHANGED in_cap
    /\ UNCHANGED video_cap
    /\ UNCHANGED <<globVars, CvOthers>>

(* video_player_thread: read returns (ret); is_playing = False at the end  *)
(* of the video; the lock is released                                      *)
cv_loop_read(ret) ==
    /\ prog = "opencv"
    /\ cv_pc["main"] = "read"
    /\ in_cap' = [in_cap EXCEPT !["main"] = None]
    /\ is_playing' = IF ret THEN is_playing ELSE FALSE
    /\ video_lock' = "free"
    /\ cv_pc' = [cv_pc EXCEPT !["main"] = "show"]
    /\ UNCHANGED <<video_cap, should_reconnect, should_exit>>
    /\ UNCHANGED CvOthers

(* video_player_thread: imshow, waitKey; 'q' sets should_exit and leaves   *)
(* the loop                                                                *)
cv_loop_key(quit) ==
    /\ prog = "opencv"
    /\ cv_pc["main"] = "show"
    /\ should_exit' = (should_exit \/ quit)
    /\ cv_pc' = [cv_pc EXCEPT !["main"] = IF quit THEN "end" ELSE "top"]
    /\ UNCHANGED <<video_cap, video_lock, in_cap, should_reconnect,
                   is_playing>>
    /\ UNCHANGED CvOthers

(* video_player_thread, after the loop: if video_cap is not None:          *)
(* video_cap.release(), outside any `with video_lock`                      *)
cv_end_release ==
    /\ prog = "opencv"
    /\ cv_pc["main"] = "end"
    /\ IF video_cap = "none"
       THEN /\ cv_pc' = [cv_pc EXCEPT !["main"] = "done"]
            /\ UNCHANGED <<in_cap, video_lock>>
       ELSE /\ in_cap' = [in_cap EXCEPT !["main"] =
                                             CapCall("main", "release")]
            /\ cv_pc' = [cv_pc EXCEPT !["main"] = "release"]
            /\ UNCHANGED video_lock
    /\ UNCHANGED video_cap
    /\ UNCHANGED <<globVars, CvOthers>>

(* video_player_thread: the last release returns, the thread ends *)
cv_end_released ==
    /\ prog = "opencv"
    /\ cv_pc["main"] = "release"
    /\ in_cap' = [in_cap EXCEPT !["main"] = None]
    /\ video_cap' = "released"
    /\ cv_pc' = [cv_pc EXCEPT !["main"] = "done"]
    /\ UNCHANGED video_lock
    /\ UNCHANGED <<globVars, CvOthers>>

CvIdle ==
    /\ video_cap = "none" /\ video_lock = "free"
    /\ cv_pc = [th \in CvThreads |-> IF th = "ws" THEN "idle" ELSE "top"]
    /\ in_cap = [th \in CvThreads |-> None]

----------------------------------------------------------------------------
(* zin_avf_video_player.py: websocket_client and handle_message *)

(* The messages a connection may deliver: text that is not JSON, JSON that *)
(* is not an object, the known types, a type handle_message does not know, *)
(* a timecode whose currentTime and a video_info whose duration is not a   *)
(* number.                                                                 *)
Messages ==
    {"invalid_json", "not_object", "unknown", "pong", "connection",
     "registered", "play", "pause", "timecode", "timecode_bad",
     "video_info", "video_info_bad"}

(* messages handle_message only logs or ignores *)
Quiet == {"invalid_json", "not_object", "unknown", "pong"}

(* what handling the message raises inside the try block: json.loads on    *)
(* invalid text, data.get on a value that is not a dict, arithmetic and    *)
(* formatting on a field of the wrong type                                 *)
Raises(msg) ==
    IF msg = "invalid_json" THEN "JSONDecodeError"
    ELSE IF msg = "not_object" THEN "AttributeError"
    ELSE IF msg \in {"timecode_bad", "video_info_bad"} THEN "TypeError"
    ELSE "none"

(* Mutant: only the JSON error is caught *)
Caught_JsonOnly(exc) == exc = "JSONDecodeError"

(* handle_message: except json.JSONDecodeError / except Exception *)
Caught(exc) ==
    exc = "JSONDecodeError" \/ exc \in {"AttributeError", "TypeError"}

(* the signals handle_message emits: seek_request for a timecode when a    *)
(* grabber exists, load_video_request for a video_info with a path. A      *)
(* currentTime that is not a number is refused by emit, a duration that is *)
(* not a number raises in the log line before the emit.                    *)
Emitted(msg, queue) ==
    IF msg = "timecode" /\ grabber # "none"
    THEN Append(queue, [sig |-> "seek_request", arg |-> 400])
    ELSE IF msg = "video_info"
    THEN Append(queue, [sig |-> "load_video_request", arg |-> "a.mp4"])
    ELSE queue

(* Mutant: an except clause of websocket_client returns *)
ExceptNext_Return == "done"

(* websocket_client: every except clause logs, clears websocket_connection *)
(* and falls through to the check before the sleep                         *)
ExceptNext == "tail"

(* Mutant: the client listens without registering *)
AfterConnect_Listen == "receiving"

(* websocket_client: after the connection is made, send_register_message *)
AfterConnect == "register"

NoConn == [registered |-> FALSE, handled |-> FALSE, raised |-> FALSE]

(* what the WebSocket thread leaves alone *)
WsOthers ==
    <<prog, globVars, pyavVars, ioVars, libVars, ownVars, cvVars, playVars,
      vlcVars, grabber, video, current_frame, pending_ws_seek_time, timerLeft, running,
      uncaught, events, sinceUpdate, sinceSeek, in_grab, callers>>

(* while should_reconnect and not should_exit *)
ws_loop_test ==
    /\ prog = "wsclient" /\ ws_pc = "loop"
    /\ ws_pc' = IF should_reconnect /\ ~should_exit THEN "connect" ELSE "done"
    /\ UNCHANGED <<WsOthers, sigQueue, nMsgs, server_up, ws_msg, conn,
                   attempts, late, propagated>>

(* async with websockets.connect(WS_URL, ssl=True): a new attempt; it      *)
(* raises when the server cannot be reached                                *)
ws_connect ==
    /\ prog = "wsclient" /\ ws_pc = "connect"
    /\ attempts' = Min(MaxAttempts, attempts + 1)
    /\ late' = [late EXCEPT !.attempt = @ \/ should_exit]
    /\ conn' = NoConn
    /\ ws_pc' = IF server_up THEN AfterConnect ELSE ExceptNext
    /\ UNCHANGED <<WsOthers, sigQueue, nMsgs, server_up, ws_msg, propagated>>

(* await send_register_message(websocket): raises when the connection is   *)
(* gone                                                                    *)
ws_register ==
    /\ prog = "wsclient" /\ ws_pc = "register"
    /\ IF server_up
       THEN /\ conn' = [conn EXCEPT !.registered = TRUE]
            /\ ws_pc' = "receiving"
       ELSE /\ ws_pc' = ExceptNext
            /\ UNCHANGED conn
    /\ UNCHANGED <<WsOthers, sigQueue, nMsgs, server_up, ws_msg, attempts,
                   late, propagated>>

(* async for message in websocket: the next message arrives *)
ws_recv(msg) ==
    /\ prog = "wsclient" /\ ws_pc = "receiving" /\ server_up
    /\ nMsgs < MaxMsgs
    /\ nMsgs' = nMsgs + 1
    /\ ws_msg' = Some(msg)
    /\ ws_pc' = "check"
    /\ UNCHANGED <<WsOthers, sigQueue, server_up, conn, attempts, late,
                   propagated>>

(* async for message in websocket: the connection is closed, by the server *)
(* (ConnectionClosed is raised, or the iteration ends) or because the     *)
(* server went away                                                        *)
ws_conn_closed ==
    /\ prog = "wsclient" /\ ws_pc = "receiving"
    /\ ws_pc' = ExceptNext
    /\ UNCHANGED <<WsOthers, sigQueue, nMsgs, server_up, ws_msg, conn,
                   attempts, late, propagated>>

(* if should_exit: break *)
ws_exit_check ==
    /\ prog = "wsclient" /\ ws_pc = "check"
    /\ IF should_exit
       THEN ws_pc' = "tail" /\ ws_msg' = None
       ELSE ws_pc' = "handle" /\ UNCHANGED ws_msg
    /\ UNCHANGED <<WsOthers, sigQueue, nMsgs, server_up, conn, attempts,
                   late, propagated>>

(* await handle_message(message) *)
ws_handle ==
    /\ prog = "wsclient" /\ ws_pc = "handle"
    /\ LET msg == ValueOf(ws_msg)
           exc == Raises(msg)
       IN /\ sigQueue' = Emitted(msg, sigQueue)
          /\ conn' = [conn EXCEPT !.handled = TRUE,
                                  !.raised = @ \/ exc # "none"]
          /\ late' = [late EXCEPT !.handled = @ \/ should_exit]
          /\ IF exc = "none" \/ Caught(exc)
             THEN ws_pc' = "receiving" /\ UNCHANGED propagated
             ELSE ws_pc' = ExceptNext /\ propagated' = TRUE
    /\ ws_msg' = None
    /\ UNCHANGED <<WsOthers, nMsgs, server_up, attempts>>

(* if should_reconnect and not should_exit: await asyncio.sleep(retry_delay) *)
ws_tail ==
    /\ prog = "wsclient" /\ ws_pc = "tail"
    /\ ws_pc' = IF should_reconnect /\ ~should_exit THEN "sleep" ELSE "loop"
    /\ UNCHANGED <<WsOthers, sigQueue, nMsgs, server_up, ws_msg, conn,
                   attempts, late, propagated>>

(* asyncio.sleep(retry_delay) returns *)
ws_sleep ==
    /\ prog = "wsclient" /\ ws_pc = "sleep"
    /\ ws_pc' = "loop"
    /\ UNCHANGED <<WsOthers, sigQueue, nMsgs, server_up, ws_msg, conn,
                   attempts, late, propagated>>

(* the server starts or stops *)
ws_server(up) ==
    /\ prog = "wsclient"
    /\ server_up # up
    /\ server_up' = up
    /\ UNCHANGED <<WsOthers, sigQueue, nMsgs, ws_pc, ws_msg, conn, attempts,
                   late, propagated>>

WsIdle ==
    /\ ws_pc = "loop" /\ server_up = FALSE /\ ws_msg = None
    /\ conn = NoConn /\ attempts = 0
    /\ late = [handled |-> FALSE, attempt |-> FALSE]
    /\ propagated = FALSE

----------------------------------------------------------------------------
(* zin_pyav_frame_seeker.py: playback in the VideoPlayerWindow *)

(* what playback leaves alone *)
PlayOthers ==
    <<prog, avfVars, ioVars, libVars, ownVars, cvVars, wsVars, vlcVars,
      should_reconnect, should_exit, stream, total_frames, pc, run, seeker,
      loads, window_open, range_call>>

(* display_frame(frame_num), called by op: seek_to_frame(frame_num) from   *)
(* its range check to its return; the frame and its number become current  *)
(* when a frame is returned                                                *)
play_display_frame(op, frame_num) ==
    LET o == SeekOutcome(frame_num)
    IN /\ call' = [o.call EXCEPT !.op = op]
       /\ cursor' = o.cursor
       /\ current_image' = IF o.call.result # None THEN o.call.result
                           ELSE current_image
       /\ current_frame_num' = IF o.call.result # None THEN frame_num
                               ELSE current_frame_num

(* the body of toggle_play: is_playing is flipped, the timer started with  *)
(* the frame interval or stopped                                           *)
TogglePlay ==
    IF seeker = "none"
    THEN UNCHANGED <<is_playing, play_timer>>
    ELSE /\ is_playing' = ~is_playing
         /\ play_timer' = ~is_playing

(* on_slider_changed(value): the user moves the slider while paused *)
on_slider_changed(value) ==
    /\ prog = "pyavplay" /\ window_open /\ ~is_playing
    /\ value < total_frames
    /\ play_display_frame("on_slider_changed", value)
    /\ UNCHANGED <<PlayOthers, is_playing, play_timer>>

(* toggle_play: the play button *)
toggle_play ==
    /\ prog = "pyavplay" /\ window_open
    /\ TogglePlay
    /\ call' = NoCall
    /\ UNCHANGED <<PlayOthers, cursor, current_image, current_frame_num>>

(* play_next_frame: not (current_frame_num < total_frames - 1) *)
AtEnd == ~(current_frame_num < total_frames - 1)

(* play_next_frame, the timeout of play_timer: next_frame() below the last *)
(* frame, toggle_play() at the end of the video                            *)
play_next_frame ==
    /\ prog = "pyavplay" /\ window_open /\ play_timer
    /\ IF ~AtEnd
       THEN IF current_frame_num < total_frames - 1
            THEN /\ play_display_frame("play_next_frame",
                                       current_frame_num + 1)
                 /\ UNCHANGED <<is_playing, play_timer>>
            ELSE UNCHANGED <<call, cursor, current_image, current_frame_num,
                             is_playing, play_timer>>
       ELSE /\ TogglePlay
            /\ call' = NoCall
            /\ UNCHANGED <<cursor, current_image, current_frame_num>>
    /\ UNCHANGED PlayOthers

PlayIdle == play_timer = FALSE

----------------------------------------------------------------------------
(* zin_video_player_vlc_gui.py *)

VlcThreads == {"ws", "main"}

(* the messages whose handlers call vlc_player *)
VlcMessages ==
    {[type |-> "timecode", t |-> t] : t \in Times}
        \cup {[type |-> ty, t |-> 0] : ty \in {"play", "pause", "video_info"}}

(* the first call the handler of a message makes on vlc_player: get_time   *)
(* in seek_video, is_playing in set_playing, set_media in load_video       *)
FirstCall(msg) ==
    IF msg.type = "timecode" THEN "get_time"
    ELSE IF msg.type = "video_info" THEN "set_media"
    ELSE "is_playing"

(* what the VLC player leaves alone *)
VlcOthers ==
    <<prog, avfVars, pyavVars, libVars, ownVars, cvVars, wsVars, playVars,
      is_playing, video_frames, video_fps, lookup>>

(* the process is running: the daemon WebSocket thread ends with it *)
VlcRunning == \A th \in VlcThreads : vlc_pc[th] \notin {"exited", "crashed"}

(* websocket_client: async for message in websocket *)
vlc_recv(msg) ==
    /\ prog = "vlc" /\ VlcRunning /\ vlc_pc["ws"] = "receiving"
    /\ vlc_msg' = Some(msg)
    /\ vlc_pc' = [vlc_pc EXCEPT !["ws"] = "check"]
    /\ UNCHANGED <<VlcOthers, should_reconnect, should_exit, target_time,
                   vlc_player, vlc_lock, vlc_call>>

(* websocket_client: if should_exit: break, which ends the loop *)
vlc_exit_check ==
    /\ prog = "vlc" /\ VlcRunning /\ vlc_pc["ws"] = "check"
    /\ IF should_exit
       THEN /\ vlc_pc' = [vlc_pc EXCEPT !["ws"] = "done"]
            /\ vlc_msg' = None
       ELSE /\ vlc_pc' = [vlc_pc EXCEPT !["ws"] = "handle"]
            /\ UNCHANGED vlc_msg
    /\ UNCHANGED <<VlcOthers, should_reconnect, should_exit, target_time,
                   vlc_player, vlc_lock, vlc_call>>

(* handle_message -> seek_video / set_playing / load_video: with vlc_lock *)
vlc_handle_acquire ==
    /\ prog = "vlc" /\ VlcRunning /\ vlc_pc["ws"] = "handle"
    /\ vlc_lock = "free"
    /\ vlc_lock' = "ws"
    /\ vlc_pc' = [vlc_pc EXCEPT !["ws"] = "locked"]
    /\ UNCHANGED <<VlcOthers, should_reconnect, should_exit, target_time,
                   vlc_player, vlc_msg, vlc_call>>

(* the locked section: vlc_player is not None, so the calls are made; a    *)
(* call on a released player is a use of freed memory in libvlc, which     *)
(* returns something or ends the process (crashes)                         *)
vlc_handle_call(crashes) ==
    /\ prog = "vlc" /\ VlcRunning /\ vlc_pc["ws"] = "locked"
    /\ crashes => vlc_player = "released"
    /\ LET msg == ValueOf(vlc_msg)
       IN /\ vlc_call' = Some([op |-> FirstCall(msg),
                               released |-> vlc_player = "released"])
          /\ target_time' = IF msg.type = "timecode" THEN msg.t
                            ELSE target_time
    /\ vlc_pc' = IF crashes THEN [th \in VlcThreads |-> "crashed"]
                 ELSE [vlc_pc EXCEPT !["ws"] = "unlock"]
    /\ UNCHANGED <<VlcOthers, should_reconnect, should_exit, vlc_player,
                   vlc_lock, vlc_msg>>

(* the end of the with block; back in the receive loop *)
vlc_handle_return ==
    /\ prog = "vlc" /\ VlcRunning /\ vlc_pc["ws"] = "unlock"
    /\ vlc_lock' = "free"
    /\ vlc_msg' = None
    /\ vlc_pc' = [vlc_pc EXCEPT !["ws"] = "receiving"]
    /\ UNCHANGED <<VlcOthers, should_reconnect, should_exit, target_time,
                   vlc_player, vlc_call>>

(* on_closing: should_reconnect = False; should_exit = True *)
on_closing ==
    /\ prog = "vlc" /\ VlcRunning /\ vlc_pc["main"] = "mainloop"
    /\ should_reconnect' = FALSE
    /\ should_exit' = TRUE
    /\ vlc_pc' = [vlc_pc EXCEPT !["main"] = "closing"]
    /\ UNCHANGED <<VlcOthers, target_time, vlc_player, vlc_lock, vlc_msg,
                   vlc_call>>

(* on_closing: with vlc_lock *)
on_closing_acquire ==
    /\ prog = "vlc" /\ VlcRunning /\ vlc_pc["main"] = "closing"
    /\ vlc_lock = "free"
    /\ vlc_lock' = "main"
    /\ vlc_pc' = [vlc_pc EXCEPT !["main"] = "stopping"]
    /\ UNCHANGED <<VlcOthers, should_reconnect, should_exit, target_time,
                   vlc_player, vlc_msg, vlc_call>>

(* on_closing: vlc_player.stop(); vlc_player.release(); the lock is        *)
(* released and root.destroy() called; vlc_player is not set to None       *)
on_closing_release ==
    /\ prog = "vlc" /\ VlcRunning /\ vlc_pc["main"] = "stopping"
    /\ vlc_player' = "released"
    /\ vlc_lock' = "free"
    /\ vlc_pc' = [vlc_pc EXCEPT !["main"] = "destroyed"]
    /\ UNCHANGED <<VlcOthers, should_reconnect, should_exit, target_time,
                   vlc_msg, vlc_call>>

(* main: root.mainloop() returns, main returns and the process exits *)
vlc_main_return ==
    /\ prog = "vlc" /\ VlcRunning /\ vlc_pc["main"] = "destroyed"
    /\ vlc_pc' = [vlc_pc EXCEPT !["main"] = "exited"]
    /\ UNCHANGED <<VlcOthers, should_reconnect, should_exit, target_time,
                   vlc_player, vlc_lock, vlc_msg, vlc_call>>

VlcIdle ==
    /\ vlc_player = "live" /\ vlc_lock = "free"
    /\ vlc_pc = [th \in VlcThreads |->
                    IF th = "ws" THEN "receiving" ELSE "mainloop"]
    /\ vlc_msg = None /\ vlc_call = None

ExtIdle == CvIdle /\ WsIdle /\ PlayIdle /\ VlcIdle

----------------------------------------------------------------------------
(* The specifications *)

InitAVF ==
    /\ prog = "avf"
    /\ AVFIdle /\ PyAVIdle /\ IoIdle /\ LibIdle /\ NoHandles /\ ExtIdle

NextAVF ==
    \/ \E t \in Times : WsTimecode(t)
    \/ \E p \in Paths : WsVideoInfo(p)
    \/ seek_to_time_seconds
    \/ \E ok \in BOOLEAN : load_video(ok)
    \/ \E ok \in BOOLEAN, aborts \in BOOLEAN : perform_ws_seek(ok, aborts)
    \/ \E th \in Threads : display_frame_return(th)
    \/ prog = "avf" /\ closeEvent
    \/ Tick

SpecAVF == InitAVF /\ [][NextAVF]_vars

(* the Qt event loop of the GUI thread keeps delivering queued signals and *)
(* timer timeouts, a decode that was started returns, and time passes      *)
FairSpecAVF ==
    /\ SpecAVF
    /\ WF_vars(seek_to_time_seconds)
    /\ WF_vars(\E ok \in BOOLEAN : load_video(ok))
    /\ WF_vars(\E ok \in BOOLEAN, aborts \in BOOLEAN :
                  perform_ws_seek(ok, aborts))
    /\ WF_vars(\E th \in Threads : display_frame_return(th))
    /\ WF_vars(Tick)

(* PyAVFrameSeeker(video_path) *)
InitPyAV ==
    /\ prog = "pyav"
    /\ AVFIdle
    /\ stream \in Streams
    /\ total_frames = InitTotalFrames(stream)
    /\ cursor = 1
    /\ current_frame_num = 0
    /\ current_image = None
    /\ pc = "idle"
    /\ call = NoCall
    /\ run = [len |-> 0, seeks |-> 0, valid |-> 0]
    /\ seeker = "open" /\ loads = 0 /\ window_open = TRUE
    /\ range_call = NoRange
    /\ IoIdle /\ LibIdle /\ NoHandles /\ ExtIdle

Requests == (-1)..(MaxFrames + 1)

(* the ranges entered in range_start_input and range_end_input: from the *)
(* first frame, the last frame a stream can announce, and a reversed      *)
(* range                                                                  *)
Ranges == {<<0, 2>>, <<MaxFrames, MaxFrames>>, <<1, 0>>}

NextPyAV ==
    \/ \E f \in Requests : seek_to_frame(f)
    \/ get_next_frame
    \/ get_previous_frame
    \/ DecodeFirst
    \/ DecodeLoop
    \/ SeekReturn
    \/ \E opens \in BOOLEAN : pyav_load_video(opens, OtherVideo)
    \/ pyav_display_first_frame
    \/ pyav_closeEvent
    \/ \E r \in Ranges : get_frame_range(r[1], r[2])

SpecPyAV == InitPyAV /\ [][NextPyAV]_vars

(* a call that was entered runs its statements one after the other *)
FairSpecPyAV ==
    /\ SpecPyAV
    /\ WF_vars(DecodeFirst) /\ WF_vars(DecodeLoop) /\ WF_vars(SeekReturn)
    /\ WF_vars(pyav_display_first_frame)

InitImageio ==
    /\ prog = "imageio"
    /\ AVFIdle /\ PyAVIdle /\ IoIdle /\ LibIdle /\ NoHandles /\ ExtIdle

NextImageio ==
    \/ /\ prog = "imageio"
       /\ \E opened \in BOOLEAN, fps \in IoFps, loaded \in 0..MaxFrames :
              io_load_video(opened, fps, loaded)
    \/ prog = "imageio" /\ \E t \in Times : seek_video(t)

SpecImageio == InitImageio /\ [][NextImageio]_vars

(* the frames the image generator returns no image for: none, or one *)
FailingFrames == {{}} \cup {{f} : f \in 0..(MaxFrames - 1)}

InitGrabber ==
    /\ prog = "grabber"
    /\ AVFIdle /\ PyAVIdle /\ IoIdle /\ LibIdle /\ NoHandles /\ ExtIdle

NextGrabber ==
    \/ prog = "grabber" /\ \E img \in Images : grab_frame_at_time(img)
    \/ /\ prog = "grabber"
       /\ \E total \in 0..(MaxFrames + 1), r \in Ranges,
              bad \in FailingFrames :
              avf_get_frame_range(total, r[1], r[2], bad)

SpecGrabber == InitGrabber /\ [][NextGrabber]_vars

InitOpenCV ==
    /\ prog = "opencv"
    /\ AVFIdle /\ PyAVIdle /\ IoIdle /\ LibIdle /\ NoHandles /\ ExtIdle

NextOpenCV ==
    \/ cv_seek_acquire \/ cv_seek_check \/ cv_seek_read \/ cv_seek_return
    \/ cv_load_acquire \/ cv_load_released
    \/ \E opens \in BOOLEAN : cv_load_open(opens)
    \/ \E playing \in BOOLEAN : cv_set_playing(playing)
    \/ cv_loop_top \/ cv_loop_body
    \/ \E ret \in BOOLEAN : cv_loop_read(ret)
    \/ \E quit \in BOOLEAN : cv_loop_key(quit)
    \/ cv_end_release \/ cv_end_released

SpecOpenCV == InitOpenCV /\ [][NextOpenCV]_vars

(* run_websocket_client starts websocket_client; a video may be loaded *)
InitWsClient ==
    /\ prog = "wsclient"
    /\ grabber \in {"none", "open"}
    /\ video = IF grabber = "open" THEN GrabberInit("a.mp4") ELSE NoVideo
    /\ current_frame = 0
    /\ pending_ws_seek_time = None
    /\ timerLeft = Inactive
    /\ sigQueue = <<>>
    /\ running = TRUE
    /\ uncaught = FALSE
    /\ events = <<>>
    /\ sinceUpdate = ClockCap
    /\ sinceSeek = ClockCap
    /\ nMsgs = 0
    /\ should_reconnect = TRUE
    /\ should_exit = FALSE
    /\ is_playing = FALSE
    /\ in_grab = [th \in Threads |-> NoGrab]
    /\ callers = {}
    /\ server_up \in BOOLEAN
    /\ ws_pc = "loop" /\ ws_msg = None /\ conn = NoConn /\ attempts = 0
    /\ late = [handled |-> FALSE, attempt |-> FALSE]
    /\ propagated = FALSE
    /\ PyAVIdle /\ IoIdle /\ LibIdle /\ NoHandles /\ CvIdle /\ PlayIdle
    /\ VlcIdle

NextWsClient ==
    \/ ws_loop_test
    \/ ws_connect
    \/ ws_register
    \/ \E msg \in Messages : ws_recv(msg)
    \/ ws_conn_closed
    \/ ws_exit_check
    \/ ws_handle
    \/ ws_tail
    \/ ws_sleep
    \/ \E up \in BOOLEAN : ws_server(up)
    \/ prog = "wsclient" /\ closeEvent

SpecWsClient == InitWsClient /\ [][NextWsClient]_vars

(* the asyncio loop of the WebSocket thread keeps running its coroutine *)
FairSpecWsClient ==
    /\ SpecWsClient
    /\ WF_vars(ws_loop_test) /\ WF_vars(ws_connect) /\ WF_vars(ws_register)
    /\ WF_vars(ws_exit_check) /\ WF_vars(ws_handle)
    /\ WF_vars(ws_tail) /\ WF_vars(ws_sleep)

(* the VideoPlayerWindow after load_video of a video: display_frame(0) has *)
(* been called                                                             *)
InitPyAVPlay ==
    /\ prog = "pyavplay"
    /\ AVFIdle
    /\ stream \in Streams
    /\ total_frames = InitTotalFrames(stream)
    /\ cursor = 1
    /\ call = NoCall
    /\ current_frame_num = 0
    /\ current_image = None
    /\ pc = "idle"
    /\ run = [len |-> 0, seeks |-> 0, valid |-> 0]
    /\ seeker = "open" /\ loads = 0 /\ window_open = TRUE
    /\ range_call = NoRange
    /\ IoIdle /\ LibIdle /\ NoHandles /\ ExtIdle

NextPyAVPlay ==
    \/ \E value \in 0..MaxFrames : on_slider_changed(value)
    \/ toggle_play
    \/ play_next_frame

SpecPyAVPlay == InitPyAVPlay /\ [][NextPyAVPlay]_vars

(* the Qt event loop keeps delivering the timeouts of an active play timer *)
FairSpecPyAVPlay == SpecPyAVPlay /\ WF_vars(play_next_frame)

(* main: init_vlc, create_gui, the WebSocket thread connected and          *)
(* registered, root.mainloop()                                             *)
InitVlc ==
    /\ prog = "vlc"
    /\ AVFIdle /\ PyAVIdle /\ IoIdle /\ LibIdle /\ NoHandles /\ ExtIdle

NextVlc ==
    \/ \E msg \in VlcMessages : vlc_recv(msg)
    \/ vlc_exit_check
    \/ vlc_handle_acquire
    \/ \E crashes \in BOOLEAN : vlc_handle_call(crashes)
    \/ vlc_handle_return
    \/ on_closing
    \/ on_closing_acquire
    \/ on_closing_release
    \/ vlc_main_return

SpecVlc == InitVlc /\ [][NextVlc]_vars

Init ==
    InitAVF \/ InitPyAV \/ InitImageio \/ InitGrabber \/ InitOpenCV
        \/ InitWsClient \/ InitPyAVPlay \/ InitVlc

Next ==
    NextAVF \/ NextPyAV \/ NextImageio \/ NextGrabber \/ NextOpenCV
        \/ NextWsClient \/ NextPyAVPlay \/ NextVlc

Spec == Init /\ [][Next]_vars

----------------------------------------------------------------------------
(* Reading the log of the AVF player *)

EventIdx == 1..Len(events)
Upds == {i \in EventIdx : events[i].kind = "upd"}
Seeks == {i \in EventIdx : events[i].kind = "seek"}
WsSeeks == {i \in Seeks : events[i].src = "ws"}

SetMin(S) == CHOOSE x \in S : \A y \in S : x <= y
SetMax(S) == CHOOSE x \in S : \A y \in S : x >= y

(* the next update after event i, or Len(events) + 1 *)
NextUpd(i) ==
    LET later == {j \in Upds : j > i}
    IN IF later = {} THEN Len(events) + 1 ELSE SetMin(later)

(* the last update before event k, or 0 *)
LastUpdBefore(k) ==
    LET earlier == {j \in Upds : j < k}
    IN IF earlier = {} THEN 0 ELSE SetMax(earlier)

(* the debounced seeks issued after update i and before the next update *)
SeeksAfter(i) == {k \in WsSeeks : i < k /\ k < NextUpd(i)}

(* no update followed update i for more than the settle interval *)
Settled(i) ==
    IF NextUpd(i) <= Len(events) THEN events[NextUpd(i)].gap > SettleMs
    ELSE sinceUpdate > SettleMs

(* the next update arrived less than the settle interval after update i *)
SupersededEarly(i) ==
    NextUpd(i) <= Len(events) /\ events[NextUpd(i)].gap < SettleMs

(* frame = floor(time * framerate), clamped to [0, total_frames - 1] *)
SpecFrame(time_ms, fps, total) ==
    Max(0, Min(Floor(time_ms * fps, 1000), total - 1))

SeekMatches(k, i) ==
    /\ events[k].t = events[i].t
    /\ events[k].frame =
           SpecFrame(events[i].t, events[k].framerate, events[k].total_frames)
    /\ (events[k].total_frames > 0 /\ ~events[k].raised) => events[k].decoded

(* C1: a burst of updates, each less than 30 ms after the previous one and  *)
(* followed by 30 ms of quiet, gets exactly one grab_frame_number call from *)
(* perform_ws_seek, for the frame computed from the last update of the     *)
(* burst; the earlier updates of the burst get none.                       *)
C1_BurstOneSeekForLast ==
    \A i \in Upds :
        /\ SupersededEarly(i) => SeeksAfter(i) = {}
        /\ Settled(i) =>
              /\ Cardinality(SeeksAfter(i)) = 1
              /\ \A k \in SeeksAfter(i) : SeekMatches(k, i)

C1_Witness ==
    \E i \in Upds, j \in Upds :
        /\ j = NextUpd(i) /\ SupersededEarly(i) /\ Settled(j)
        /\ events[i].t # events[j].t
        /\ \E k \in SeeksAfter(j) :
              events[k].decoded /\ events[k].frame > 0 /\ events[k].t = events[j].t

(* C2: every seek perform_ws_seek issues targets the time most recently    *)
(* received by seek_to_time_seconds, and after an update arrives at most   *)
(* one seek is issued before the next update: the seek pending for an      *)
(* update that was superseded before its timer fired is never issued.      *)
C2_SeekTargetsLatest ==
    /\ \A k \in WsSeeks :
          /\ LastUpdBefore(k) # 0
          /\ events[k].t = events[LastUpdBefore(k)].t
    /\ \A i \in Upds : Cardinality(SeeksAfter(i)) <= 1

C2_Witness ==
    \E i \in Upds, j \in Upds, k \in WsSeeks :
        /\ j = NextUpd(i) /\ SeeksAfter(i) = {} /\ k \in SeeksAfter(j)
        /\ events[i].t # events[j].t
        /\ events[k].t = events[j].t

RECURSIVE GapSum(_, _)
(* ms from the grab_frame_number call of event k1 to that of event k2 *)
GapSum(k1, k2) ==
    IF k2 <= k1 THEN 0
    ELSE (IF events[k2].kind = "seek" THEN events[k2].gap ELSE 0)
         + GapSum(k1, k2 - 1)

(* C3 as stated: no two grab_frame_number calls on the grabber start less  *)
(* than one settle interval apart.                                         *)
C3_AnyTwoSeeksApart ==
    \A k \in Seeks : events[k].gap >= SettleMs

(* C3 amended: no two grab_frame_number calls issued by perform_ws_seek    *)
(* start less than one settle interval apart.                              *)
C3_WsSeeksApart ==
    \A k1 \in WsSeeks, k2 \in WsSeeks :
        k1 < k2 => GapSum(k1, k2) >= SettleMs

C3_Witness ==
    \E k1 \in WsSeeks, k2 \in WsSeeks :
        /\ k1 < k2 /\ GapSum(k1, k2) = SettleMs
        /\ events[k1].decoded /\ events[k2].decoded

RECURSIVE TimesOf(_, _)
(* the times of the events of index set S up to event n, in log order *)
TimesOf(S, n) ==
    IF n = 0 THEN <<>>
    ELSE IF n \in S THEN Append(TimesOf(S, n - 1), events[n].t)
    ELSE TimesOf(S, n - 1)

IsPrefix(s, t) == Len(s) <= Len(t) /\ \A i \in 1..Len(s) : s[i] = t[i]

AllSpaced == \A i \in Upds : events[i].gap > SettleMs

(* C4: when every update arrives more than 30 ms after the previous one,   *)
(* the seeks of perform_ws_seek target the updates one for one and in the  *)
(* order of arrival; only the last update may still wait for its timer.    *)
C4_SpacedOneSeekEach ==
    AllSpaced =>
        LET U == TimesOf(Upds, Len(events))
            S == TimesOf(WsSeeks, Len(events))
        IN /\ IsPrefix(S, U)
           /\ Len(S) >= Len(U) - 1
           /\ (sinceUpdate > SettleMs => Len(S) = Len(U))

C4_Witness ==
    /\ AllSpaced /\ Cardinality(Upds) >= 2 /\ sinceUpdate > SettleMs
    /\ TimesOf(WsSeeks, Len(events)) = TimesOf(Upds, Len(events))
    /\ \E i \in Upds, j \in Upds : events[i].t # events[j].t

----------------------------------------------------------------------------
(* Reading a finished call of PyAVFrameSeeker.seek_to_frame *)

Finished == prog = "pyav" /\ pc = "idle" /\ call.op # "none" /\ call.done

ArgInRange == 0 <= call.arg /\ call.arg < total_frames

(* the index recomputed from the timestamp of the returned frame:          *)
(* floor(pts * time_base * framerate)                                      *)
ReturnedIndex == Floor(ValueOf(call.result) * stream.framerate, stream.tb)

(* C5: seek_to_frame(f) with 0 <= f < total_frames that returns a frame    *)
(* returns the frame whose index recomputed from its timestamp is f.       *)
C5_ReturnsTargetFrame ==
    (Finished /\ ArgInRange /\ call.result # None) => ReturnedIndex = call.arg

C7_ForwardRunOneKeyframeSeek ==
    /\ prog = "pyav" => run.seeks <= 1
    /\ (Finished /\ ArgInRange /\ call.arg < call.num_before) => call.seeks = 1

(* C7 amended: every request inside [0, total_frames) performs one         *)
(* keyframe seek of its own, whether it asks for a later or an earlier     *)
(* frame, so a run of strictly increasing requests has one keyframe seek   *)
(* per in-range request; out-of-range requests perform none.               *)
C7_EveryRequestSeeks ==
    /\ (prog = "pyav" /\ call.op # "none") =>
          call.seeks = (IF ArgInRange THEN 1 ELSE 0)
    /\ prog = "pyav" => run.seeks = run.valid

C7_Witness ==
    /\ Finished /\ call.op = "get_next_frame" /\ call.result # None
    /\ run.len >= 2 /\ run.seeks >= 2
    /\ call.arg = call.num_before + 1

(* C8: a started seek_to_frame always finishes, after at most one decode   *)
(* call per frame of the stream and one more; when the decoder runs out of *)
(* frames first it returns None and leaves the current frame as it was.    *)
C8_SeekTerminates ==
    /\ (prog = "pyav" /\ pc # "idle") ~> (pc = "idle" /\ call.done)
    /\ [](prog = "pyav" => call.decodes <= Len(stream.pts) + 1)
    /\ []((Finished /\ ArgInRange /\ call.frame = 0) => call.result = None)
    /\ []((Finished /\ ArgInRange /\ call.remaining > 0) =>
             /\ call.result = None
             /\ current_frame_num = call.num_before
             /\ current_image = call.image_before)

C8_Witness ==
    /\ Finished /\ ArgInRange /\ call.remaining > 0 /\ call.result = None
    /\ call.decodes >= 2 /\ cursor = Len(stream.pts) + 1

C10_FrameFromTime ==
    /\ \A k \in WsSeeks :
          events[k].frame =
              SpecFrame(events[k].t, events[k].framerate, events[k].total_frames)
    /\ (prog = "imageio" /\ lookup.index # None) =>
          ValueOf(lookup.index) = SpecFrame(lookup.t, lookup.fps, lookup.n)

C10_Witness ==
    /\ prog = "imageio" /\ lookup.index # None
    /\ lookup.t < 0 /\ lookup.n > 1 /\ (lookup.t * lookup.fps) % 1000 # 0

(* C11: seek_to_frame(f) called twice in succession on the same seeker,    *)
(* for f in [0, total_frames), returns the same frame both times (or None  *)
(* both times), whatever the decode cursor was before the first call.      *)
C11_RepeatedSeekSameFrame ==
    (Finished /\ call.again /\ ArgInRange) => call.result = call.prev_result

C11_Witness ==
    /\ Finished /\ call.again /\ ArgInRange
    /\ call.result # None /\ call.result = call.prev_result
    /\ call.arg > 0 /\ call.decodes >= 2
    /\ cursor <= Len(stream.pts)

----------------------------------------------------------------------------
(* Ownership of the handles *)

(* the window was closed *)
WindowClosed ==
    \/ prog = "avf" /\ should_exit
    \/ prog = "pyav" /\ ~window_open

(* the window holds a seeker or grabber *)
HoldsHandle ==
    \/ prog = "avf" /\ grabber # "none"
    \/ prog = "pyav" /\ seeker # "none"

(* C12: over any sequence of load_video calls, each opening its file or    *)
(* failing to, followed by closing the window, close() is called exactly   *)
(* once on every seeker or grabber that was opened: never twice on the one *)
(* the window holds or on one it has let go, and once the window is closed *)
(* the one it holds has been closed.                                       *)
C12_ClosedExactlyOnce ==
    /\ closes <= 1
    /\ \A c \in released : c = 1
    /\ (WindowClosed /\ HoldsHandle) => closes = 1

----------------------------------------------------------------------------
(* Threads of the AVF player *)

(* a message was handled on the WebSocket thread while the GUI thread was  *)
(* inside a decode                                                         *)
ArrivedDuringDecode ==
    /\ prog = "avf" /\ in_grab["gui"].active
    /\ nMsgs > in_grab["gui"].msgs

(* C13: every call on a grabber (grab_frame_number from load_video and     *)
(* from perform_ws_seek, close) is made on the GUI thread, and no two      *)
(* decode calls are in progress at the same time.                          *)
C13_GrabberCallsOnGuiThread ==
    /\ callers \subseteq {"gui"}
    /\ Cardinality({th \in Threads : in_grab[th].active}) <= 1

C13_Witness ==
    /\ ArrivedDuringDecode
    /\ callers = {"gui"}
    /\ events[Len(events)].src = "ws" /\ events[Len(events)].decoded
    /\ sigQueue # <<>>

(* a step of the WebSocket thread: it has handled one more message *)
WsStep == nMsgs' # nMsgs

(* C14: the WebSocket thread never executes a decode; handling a message   *)
(* there only queues a signal; and while the GUI thread is inside a decode *)
(* the next timecode message can be handled.                               *)
C14_ReceivePathNotStalled ==
    /\ [](~in_grab["ws"].active)
    /\ []((prog = "avf" /\ running /\ in_grab["gui"].active
              /\ nMsgs < MaxMsgs)
            => ENABLED (\E t \in Times : WsTimecode(t)))
    /\ [][WsStep =>
            UNCHANGED <<grabber, video, current_frame, pending_ws_seek_time,
                        timerLeft, events, in_grab, callers, closes,
                        released>>]_vars

C14_Witness ==
    /\ ArrivedDuringDecode
    /\ events[Len(events)].src = "load"
    /\ sigQueue # <<>>
    /\ sigQueue[Len(sigQueue)].sig = "seek_request"

(* C15: while a decode started by the GUI thread is in progress, the       *)
(* updates that arrive are only queued: the pending target, the timer and  *)
(* the decode are left alone, and the decode ends by returning to          *)
(* display_frame, which shows its frame when there is an image, whatever   *)
(* arrived meanwhile.                                                      *)
C15_StartedDecodeCompletes ==
    [][(prog = "avf" /\ in_grab["gui"].active) =>
          \/ UNCHANGED <<in_grab, current_frame, pending_ws_seek_time,
                         timerLeft, events>>
          \/ /\ ~in_grab'["gui"].active
             /\ current_frame' = IF in_grab["gui"].ok
                                  THEN in_grab["gui"].frame
                                  ELSE current_frame
             /\ UNCHANGED <<pending_ws_seek_time, timerLeft, events,
                            sigQueue>>]_vars

C15_Witness ==
    /\ ArrivedDuringDecode
    /\ in_grab["gui"].ok /\ in_grab["gui"].frame > 0
    /\ in_grab["gui"].frame # current_frame
    /\ sigQueue # <<>>
    /\ sigQueue[Len(sigQueue)].sig = "seek_request"
    /\ Some(sigQueue[Len(sigQueue)].arg) # pending_ws_seek_time

(* C16: a seek on a closed handle ends in an error raised to the caller:   *)
(* seek_to_frame after PyAVFrameSeeker.close() and grab_frame_number after *)
(* AVFFrameGrabber.close() raise instead of returning None.                *)
C16_ClosedHandleSeekRaises ==
    /\ (Finished /\ call.closed) => call.raised
    /\ \A k \in Seeks : events[k].closed => events[k].raised

(* C20: seek_to_time_seconds and perform_ws_seek never end in an error,    *)
(* whatever the sequence and rate of the updates, and the target of an     *)
(* update superseded within the settle interval is dropped without a seek. *)
C20_DebounceNeverRaises ==
    /\ ~uncaught
    /\ \A k \in WsSeeks : ~events[k].raised
    /\ \A i \in Upds : SupersededEarly(i) => SeeksAfter(i) = {}

----------------------------------------------------------------------------
(* Reading the array of grab_frame_at_time *)

Converted == prog = "grabber" /\ libcall.op = "grab_frame_at_time"

(* the red, green and blue bytes of pixel (r, c) of the decoded image *)
RGBOf(r, c) ==
    <<[r |-> r, c |-> c, ch |-> "R"], [r |-> r, c |-> c, ch |-> "G"],
      [r |-> r, c |-> c, ch |-> "B"]>>

(* C17: grab_frame_at_time returns an array of shape (image_height,        *)
(* image_width, 3) with no padding byte in it, whose pixel (r, c) holds    *)
(* the red, green and blue components of pixel (r, c) of the decoded       *)
(* image, for 3- and 4-byte pixels of any channel order and alpha position. *)
C17_CanonicalRGB ==
    Converted =>
        /\ Len(libcall.out) = libcall.image.h
        /\ \A r \in 1..Len(libcall.out) :
              /\ Len(libcall.out[r]) = libcall.image.w
              /\ \A c \in 1..Len(libcall.out[r]) :
                    /\ Len(libcall.out[r][c]) = 3
                    /\ \A b \in 1..3 : libcall.out[r][c][b].ch # "pad"
                    /\ libcall.out[r][c] = RGBOf(r - 1, c - 1)

----------------------------------------------------------------------------
(* Reading the list of get_frame_range *)

(* the frame index recomputed from a timestamp of the stream *)
IndexOfPts(pts) == Floor(pts * stream.framerate, stream.tb)

(* C18: for 0 <= start <= end < total_frames, get_frame_range(start, end)  *)
(* returns end - start + 1 frames, the i-th of which is frame start + i,   *)
(* in PyAVFrameSeeker (on an open container) and in AVFFrameGrabber,      *)
(* whatever frame was current before the call.                             *)
C18_RangeIsConsecutive ==
    /\ (prog = "pyav" /\ seeker = "open" /\ range_call.valid) =>
          /\ Len(range_call.frames) = range_call.end - range_call.start + 1
          /\ \A i \in 1..Len(range_call.frames) :
                IndexOfPts(range_call.frames[i]) = range_call.start + i - 1
    /\ (prog = "grabber" /\ libcall.op = "get_frame_range"
          /\ 0 <= libcall.start /\ libcall.start <= libcall.end
          /\ libcall.end < libcall.total) =>
          /\ Len(libcall.frames) = libcall.end - libcall.start + 1
          /\ \A i \in 1..Len(libcall.frames) :
                libcall.frames[i] = libcall.start + i - 1

----------------------------------------------------------------------------
(* Frame navigation of PyAVFrameSeeker *)

(* a call of the given method has returned, in a seek / next / previous   *)
(* sequence that started at a frame f with f + 1 < total_frames           *)
TripAt(op) ==
    /\ prog = "pyav" /\ call.done /\ call.op = op
    /\ call.trip # None
    /\ ValueOf(call.trip).f + 1 < total_frames

(* a seek_to_frame that returned a frame *)
SeekSucceeded ==
    prog = "pyav" /\ call.done /\ call.op = "seek_to_frame"
        /\ call.result # None

----------------------------------------------------------------------------
(* Liveness of the debounce *)

(* update i was followed by a seek of perform_ws_seek that reached the     *)
(* decoder (a video of no frames has nothing to decode) and targets the    *)
(* update received last before it (update i or a later one)                *)
Sought(i) ==
    \E k \in WsSeeks :
        /\ k > i
        /\ events[k].decoded \/ events[k].total_frames = 0
        /\ events[k].t = events[LastUpdBefore(k)].t

(* an update received while a video was loaded still waits for its seek *)
Unsought == \E i \in Upds : ~Sought(i)

(* C21: every timecode update received while a video is loaded is          *)
(* eventually followed by a decoder seek that targets that update or a     *)
(* later one, as long as the timer and the GUI event loop keep running.    *)
C21_UpdateEventuallySought == Unsought ~> (~Unsought \/ ~running)

----------------------------------------------------------------------------
(* The capture handle of the OpenCV player *)

(* C22: every call on video_cap is made while holding video_lock, so the   *)
(* WebSocket thread and the display thread are never inside a call on the  *)
(* capture at the same time.                                               *)
C22_CaptureCallsUnderLock ==
    /\ \A th \in CvThreads :
          in_cap[th] # None => ValueOf(in_cap[th]).locked
    /\ ~(in_cap["ws"] # None /\ in_cap["main"] # None)

----------------------------------------------------------------------------
(* The WebSocket client loop *)

(* the client may go on: neither flag was changed by closeEvent *)
Reconnecting == should_reconnect /\ ~should_exit

(* the current connection is open and its register message was sent *)
Registered == conn.registered /\ ws_pc \in {"receiving", "check", "handle"}

(* C23: websocket_client keeps reconnecting: after every close, refusal or *)
(* error, while should_reconnect holds and should_exit does not, it waits  *)
(* the retry delay and starts a new attempt, without a limit on attempts,  *)
(* so a server that becomes reachable is eventually connected to and       *)
(* registered with.                                                        *)
C23_KeepsReconnecting ==
    /\ [][(ws_pc = "tail" /\ ws_pc' # "tail" /\ Reconnecting)
              => ws_pc' = "sleep"]_vars
    /\ (ws_pc \in {"tail", "sleep"} /\ Reconnecting)
          ~> (ws_pc = "connect" \/ ~Reconnecting)
    /\ (server_up /\ Reconnecting /\ ~Registered)
          ~> (Registered \/ ~server_up \/ ~Reconnecting)

(* registered with the server after earlier attempts had failed *)
C23_Witness ==
    /\ prog = "wsclient" /\ Registered /\ Reconnecting
    /\ attempts = MaxAttempts

(* C24: once closeEvent has set should_reconnect False and should_exit     *)
(* True, no further message is passed to handle_message and no new         *)
(* connection attempt is started, whatever the interleaving.               *)
C24_NothingAfterClose == ~late.handled /\ ~late.attempt

(* C25: on every connection websocket_client sends the register message    *)
(* before it handles any message of that connection; when the send fails   *)
(* no message of that connection is handled.                               *)
C25_RegisterBeforeMessages ==
    (ws_pc \in {"check", "handle"} \/ conn.handled) => conn.registered

(* a message handled on a connection made after an earlier attempt *)
C25_Witness ==
    /\ prog = "wsclient" /\ attempts = MaxAttempts
    /\ conn.registered /\ conn.handled

(* C26: handle_message never lets an exception reach the receive loop: the *)
(* loop goes on with the next message; and for invalid JSON, unknown types *)
(* and pong no player state changes.                                       *)
C26_HandleMessageNeverRaises ==
    [][(ws_pc = "handle" /\ ws_pc' # "handle")
          => /\ ws_pc' = "receiving"
             /\ ~propagated'
             /\ ValueOf(ws_msg) \in Quiet
                   => UNCHANGED <<grabber, video, current_frame, sigQueue,
                                  pending_ws_seek_time, timerLeft,
                                  is_playing>>]_vars

(* a message is handled on a connection on which a handler has raised *)
C26_Witness ==
    /\ prog = "wsclient" /\ conn.raised /\ ws_pc = "handle" /\ ~propagated

----------------------------------------------------------------------------
(* Calls on a closed handle *)

(* C27: display_frame calls seek_to_frame / grab_frame_number only on a    *)
(* handle that is currently open, over any sequence of loads (failing ones *)
(* included), timecode updates, slider, next / previous and timer events.  *)
C27_NoCallOnClosedHandle ==
    /\ prog = "pyav" => ~call.closed
    /\ prog = "avf" => \A k \in Seeks : ~events[k].closed

----------------------------------------------------------------------------
(* Playback in the PyAV window *)

(* the last thing the window did was a timer tick below the last frame *)
Ticked == prog = "pyavplay" /\ call.op = "play_next_frame"

(* C29: playback in the PyAV window always ends: each play-timer tick      *)
(* advances current_frame_num by one, playback stops by itself, with       *)
(* is_playing False and the timer stopped, once current_frame_num reaches  *)
(* total_frames - 1, and is_playing is true exactly when the play timer is *)
(* active.                                                                 *)
C29_PlaybackEnds ==
    /\ [](prog = "pyavplay" => (is_playing <=> play_timer))
    /\ [](Ticked => current_frame_num = call.num_before + 1)
    /\ (is_playing ~> ~is_playing)

----------------------------------------------------------------------------
(* Updates and the video they were sent for *)

(* the display_frame(0) of the last load_video before event k, or 0 *)
LastLoadBefore(k) ==
    LET earlier == {j \in Seeks : j < k /\ events[j].src = "load"}
    IN IF earlier = {} THEN 0 ELSE SetMax(earlier)

(* C28: after load_video the displayed frame is frame 0 of the new video   *)
(* and changes only in response to a timecode update received after that   *)
(* load: an update pending from the previously loaded video never causes a *)
(* seek on the new video.                                                  *)
C28_NoSeekFromEarlierUpdate ==
    \A k \in WsSeeks :
        LastLoadBefore(k) # 0 =>
            \E u \in Upds : LastLoadBefore(k) < u /\ u < k

----------------------------------------------------------------------------
(* The VLC player after on_closing *)

(* C30: after on_closing has stopped and released vlc_player, no later     *)
(* call is made on that player by the WebSocket thread, for any            *)
(* interleaving of the window close with the handling of a message.        *)
C30_NoCallAfterRelease ==
    vlc_call # None => ~ValueOf(vlc_call).released

====
